---- MODULE Spec2Model ----
(***************************************************************************)
(* Model of the cross-branch AUTO_INCREMENT coordinator                    *)
(* (go/libraries/doltcore/sqle/dsess/autoincrement_tracker.go).            *)
(*                                                                         *)
(* The tracker is a map from lowercased table names to uint64 counters,    *)
(* guarded by one mutex.  Request threads call Current, Next, Set,         *)
(* AddNewTable and DropTable; Set and DropTable read persisted             *)
(* AUTO_INCREMENT values from the branches, working sets and remote refs   *)
(* of the database.                                                        *)
(***************************************************************************)
EXTENDS Integers, Sequences, FiniteSets, TLC

\* ------------------------------------------------------------------ bounds
\* Largest value of the counter type; the uint64 of the code is scaled to
\* the range 0..MaxU and arithmetic wraps modulo MaxU + 1.
MaxU == 3
\* Largest AUTO_INCREMENT value persisted in a root of the database.
MaxSeq == 2
\* Number of request threads.
NumThreads == 2
\* Number of dolt processes sending metrics with one lock file.
NumProcs == 2

Mod == MaxU + 1
U64 == 0 .. MaxU
Threads == 1 .. NumThreads

\* ------------------------------------------------------------ table names
\* A name is a sequence of characters, so that strings.ToLower can be
\* modelled character by character.
Foo == << "F", "o", "o" >>
foo == << "f", "o", "o" >>
FOO == << "F", "O", "O" >>
TT == << "T" >>
tt == << "t" >>
Names == { Foo, foo, FOO, TT }

LowerChar(c) ==
    CASE c = "F" -> "f"
      [] c = "O" -> "o"
      [] c = "T" -> "t"
      [] OTHER -> c

\* ToLower leaving the name as it is
ToLowerNone(s) == s

\* strings.ToLower
ToLower(s) == [i \in DOMAIN s |-> LowerChar(s[i])]

Keys == { ToLower(n) : n \in Names }

\* --------------------------------------------------------- the counter map
NoVal == -1

\* a.sequences[k]: a Go map read yields the zero value for a missing key.
Get(seqs, k) == IF k \in DOMAIN seqs THEN seqs[k] ELSE 0

\* a.sequences[k] = v
Put(seqs, k, v) == [x \in (DOMAIN seqs) \cup {k} |-> IF x = k THEN v ELSE seqs[x]]

\* uint64 increment
Inc(x) == (x + 1) % Mod

EmptyMap == [x \in {} |-> 0]

\* ------------------------------------------------------- value coercion
\* Insert values: SQL NULL, integers, floating point numbers given in
\* quarters (v = 2 stands for 0.5) and a non-numeric string.
Quarters == { 1, 2, 6 }
InsertVals ==
    { [k |-> "null", v |-> 0], [k |-> "str", v |-> 0] }
        \cup [k : {"int"}, v : (-1) .. MaxU]
        \cup [k : {"float"}, v : Quarters]

\* math.Round of the non-negative float q/4: half away from zero.
Round(q) == (q + 2) \div 4

\* types.Uint64.Convert: NULL stays nil (NoVal), an integer in range is
\* itself, anything else is a conversion error.
Uint64Convert(val) ==
    CASE val.k = "null" -> [val |-> NoVal, err |-> FALSE]
      [] val.k = "int" /\ val.v \in U64 -> [val |-> val.v, err |-> FALSE]
      [] OTHER -> [val |-> 0, err |-> TRUE]

\* CoerceAutoIncrementValue taking a value that does not convert for 0
CoerceErrAsZero(insertVal) ==
    LET val == IF insertVal.k = "float"
               THEN [k |-> "int", v |-> Round(insertVal.v)]
               ELSE insertVal
        conv == Uint64Convert(val)
    IN  IF conv.err \/ conv.val = NoVal THEN [val |-> 0, err |-> FALSE]
        ELSE [val |-> conv.val, err |-> FALSE]

CoerceAutoIncrementValue(insertVal) ==
    LET val == IF insertVal.k = "float"
               THEN [k |-> "int", v |-> Round(insertVal.v)]
               ELSE insertVal
        conv == Uint64Convert(val)
    IN  IF conv.err THEN [val |-> 0, err |-> TRUE]
        ELSE IF conv.val = NoVal \/ conv.val = 0 THEN [val |-> 0, err |-> FALSE]
        ELSE [val |-> conv.val, err |-> FALSE]

\* ------------------------------------------------- the persisted database
\* A root value holds at most one table here; the table is stored under
\* the name T.  ai says whether its schema has an AUTO_INCREMENT column and
\* seq is its persisted AUTO_INCREMENT value.
NoTable == [exists |-> FALSE, name |-> TT, ai |-> FALSE, seq |-> 0]
NoAutoInc == [exists |-> TRUE, name |-> TT, ai |-> FALSE, seq |-> 0]
AutoInc(seq) == [exists |-> TRUE, name |-> TT, ai |-> TRUE, seq |-> seq]
AutoIncStates == { AutoInc(seq) : seq \in 1 .. MaxSeq }
RootStates == { NoTable, NoAutoInc } \cup AutoIncStates

BranchNames == { "main", "feat" }
RemoteNames == { "origin/main" }
\* db.GetBranches followed by db.GetRemoteRefs
RootRefs ==
    << [type |-> "branch", name |-> "main"],
       [type |-> "branch", name |-> "feat"],
       [type |-> "remote", name |-> "origin/main"] >>

\* ref.WorkingSetRefForHead: working set refs are named after their branch.
WorkingSetRefForHead(b) == b.name

\* The databases a tracker is built over: main always has a working set,
\* feat may have none (its head commit is then read), origin/main is a
\* remote-tracking ref.  A root that is never read is left empty.
DBs ==
    { d \in [hasWS : [BranchNames -> BOOLEAN],
             ws : [BranchNames -> RootStates],
             commit : [BranchNames \cup RemoteNames -> RootStates]] :
        /\ d.hasWS["main"]
        /\ d.commit["main"] = NoTable
        /\ d.ws["main"] \in {NoTable} \cup AutoIncStates
        /\ d.hasWS["feat"] =>
              d.commit["feat"] = NoTable /\ d.ws["feat"] \in {NoAutoInc, AutoInc(MaxSeq)}
        /\ ~d.hasWS["feat"] =>
              d.ws["feat"] = NoTable /\ d.commit["feat"] \in {NoAutoInc, AutoInc(MaxSeq)}
        /\ d.commit["origin/main"] \in {NoTable, AutoInc(MaxSeq)} }

\* The databases of the specification that records the generated values:
\* the table exists on main only.
GenDBs ==
    { d \in DBs : /\ ~d.hasWS["feat"]
                  /\ d.commit["feat"] = NoAutoInc
                  /\ d.commit["origin/main"] = NoTable }

\* root.GetTableInsensitive(ctx, tableName)
GetTableInsensitive(root, tableName) ==
    root.exists /\ ToLower(root.name) = ToLower(tableName)

\* The rootish deepSet reads for a ref: the working set of a branch when it
\* has one, else the commit of the ref.
Rootish(d, b) ==
    IF b.type = "branch" /\ d.hasWS[b.name] THEN d.ws[b.name] ELSE d.commit[b.name]

\* The roots handed to the constructor: working sets when available, the
\* branches when they are not.
StartupRoots(d) == [i \in DOMAIN RootRefs |-> Rootish(d, RootRefs[i])]

\* TrackerFrom storing every persisted value it meets: the last root wins
RECURSIVE TrackerFromLast(_, _, _)
TrackerFromLast(seqs, roots, i) ==
    IF i > Len(roots) THEN seqs
    ELSE LET root == roots[i]
             tableName == ToLower(root.name)
         IN  IF root.exists /\ root.ai
             THEN TrackerFromLast(Put(seqs, tableName, root.seq), roots, i + 1)
             ELSE TrackerFromLast(seqs, roots, i + 1)

\* NewAutoIncrementTracker: the loop over roots, from root number i on.
RECURSIVE TrackerFrom(_, _, _)
TrackerFrom(seqs, roots, i) ==
    IF i > Len(roots) THEN seqs
    ELSE LET root == roots[i]
             tableName == ToLower(root.name)
         IN  IF root.exists /\ root.ai /\ root.seq > Get(seqs, tableName)
             THEN TrackerFrom(Put(seqs, tableName, root.seq), roots, i + 1)
             ELSE TrackerFrom(seqs, roots, i + 1)

NewAutoIncrementTracker(roots) == TrackerFrom(EmptyMap, roots, 1)


\* ---------------------------------------------------------- JSON documents
\* A value of package types: its kind, a number (the truth value of a Bool
\* as 0 or 1, the value of a Float, the letter of a one-letter String) and
\* its elements (the values of a List; keys and values of a Map in turn).
Null == [kind |-> "Null", num |-> 0, elems |-> << >>]
Bool(b) == [kind |-> "Bool", num |-> b, elems |-> << >>]
Float(n) == [kind |-> "Float", num |-> n, elems |-> << >>]
String(c) == [kind |-> "String", num |-> c, elems |-> << >>]
List(es) == [kind |-> "List", num |-> 0, elems |-> es]
Map(kvs) == [kind |-> "Map", num |-> 0, elems |-> kvs]

\* A value of a kind that is no JSON kind: a Blob, n standing for its bytes.
Blob(n) == [kind |-> "Blob", num |-> n, elems |-> << >>]

\* The kinds compareJSON has a case for, NullKind included.
JSONKinds == { "Null", "Bool", "Float", "String", "List", "Map" }

\* The largest Float and the last letter of the values looked at.
MaxNum == 1

Primitives == { Null } \cup { Bool(b) : b \in 0 .. 1 }
                \cup { Float(n) : n \in 0 .. MaxNum }
                \cup { String(c) : c \in 0 .. MaxNum }

\* The inner values documents are made of.
JSONValues ==
    Primitives
        \cup { List(<< >>) } \cup { List(<< v >>) : v \in Primitives }
        \cup { Map(<< >>) } \cup { Map(<< String(0), v >>) : v \in Primitives }

\* Every types.Value a caller can hand over.
Values == JSONValues \cup { Blob(0) }

\* One cell of a buffer: a kind tag, a count or a payload.
KindCell(k) == [tag |-> k, v |-> 0]
CountCell(n) == [tag |-> "count", v |-> n]
DataCell(n) == [tag |-> "data", v |-> n]

\* value.writeTo(&w, nbf): the kind tag, then the payload.
RECURSIVE WriteAll(_, _)
WriteTo(v) ==
    IF v.kind = "Null" THEN << KindCell("Null") >>
    ELSE IF v.kind \in { "Bool", "Float", "String", "Blob" }
    THEN << KindCell(v.kind), DataCell(v.num) >>
    ELSE IF v.kind = "List"
    THEN << KindCell("List"), CountCell(Len(v.elems)) >> \o WriteAll(v.elems, 1)
    ELSE << KindCell("Map"), CountCell(Len(v.elems) \div 2) >> \o WriteAll(v.elems, 1)

\* The elements of a List or Map, which are primitives here, from number i on.
WriteAll(es, i) ==
    IF i > Len(es) THEN << >>
    ELSE (IF es[i].kind = "Null" THEN << KindCell("Null") >>
          ELSE << KindCell(es[i].kind), DataCell(es[i].num) >>) \o WriteAll(es, i + 1)

\* JSONDoc{}: no buffer, no value store.
NoDoc == [buff |-> << >>, vrw |-> FALSE]

\* EmptyJSONDoc(nbf): the kind tag and a count of 0; vrw is nil.
EmptyJSONDoc == [buff |-> << KindCell("JSONDoc"), CountCell(0) >>, vrw |-> FALSE]

\* NewJSONDoc(nbf, value): the kind tag, a count of 1, the value.  A failing
\* writeTo yields the empty document and the error.
NewJSONDoc(value, fail) ==
    IF fail THEN [doc |-> EmptyJSONDoc, err |-> TRUE]
    ELSE [doc |-> [buff |-> << KindCell("JSONDoc"), CountCell(1) >> \o WriteTo(value),
                   vrw |-> TRUE],
          err |-> FALSE]

\* decoderSkipToFields: the count of the envelope.
Count(d) == d.buff[2].v

\* Len returning the count of the envelope
JSONDocLenCount(d) == Count(d)

\* func (t JSONDoc) Len() uint64
JSONDocLen(d) == 1

\* func (t JSONDoc) Empty() bool
JSONDocEmpty(d) == JSONDocLen(d) = 0

\* The decoder after skipKind and after skipCount.
SkipKind(pos) == pos + 1
SkipCount(pos) == pos + 1

\* What a read of the decoder yields: the value, the position after it,
\* whether it failed, and whether it went beyond the end of the buffer.
Read(v, pos) == [value |-> v, pos |-> pos, err |-> FALSE, past |-> FALSE]
ReadPast(pos) == [value |-> Null, pos |-> pos, err |-> TRUE, past |-> TRUE]
ReadBad(pos) == [value |-> Null, pos |-> pos, err |-> TRUE, past |-> FALSE]

\* dec.readValue(nbf): the value whose kind tag is at pos.
RECURSIVE ReadAll(_, _, _, _)
ReadValue(buff, pos) ==
    IF pos > Len(buff) THEN ReadPast(pos)
    ELSE LET k == buff[pos].tag
         IN  IF k = "Null" THEN Read(Null, pos + 1)
             ELSE IF k \in { "Bool", "Float", "String", "Blob" }
             THEN IF pos + 1 > Len(buff) THEN ReadPast(pos + 1)
                  ELSE Read([kind |-> k, num |-> buff[pos + 1].v, elems |-> << >>],
                            pos + 2)
             ELSE IF k \in { "List", "Map" }
             THEN IF pos + 1 > Len(buff) THEN ReadPast(pos + 1)
                  ELSE LET n == IF k = "List" THEN buff[pos + 1].v
                                ELSE 2 * buff[pos + 1].v
                           r == ReadAll(buff, pos + 2, n, << >>)
                       IN  IF r.err THEN r
                           ELSE Read([kind |-> k, num |-> 0, elems |-> r.value], r.pos)
             ELSE ReadBad(pos)

\* The n values from pos on, after those of done.
ReadAll(buff, pos, n, done) ==
    IF n = 0 THEN Read(done, pos)
    ELSE LET r == ReadValue(buff, pos)
         IN  IF r.err THEN r
             ELSE ReadAll(buff, r.pos, n - 1, Append(done, r.value))

\* Inner reading at the count
JSONDocInnerAtCount(d) == ReadValue(d.buff, SkipKind(1))

\* func (t JSONDoc) Inner() (Value, error)
JSONDocInner(d) == ReadValue(d.buff, SkipCount(SkipKind(1)))

\* A decoder: its buffer and its position.
NoCur == [buff |-> << >>, pos |-> 1]

\* No copy: alias tells whether the copy's buffer is the storage of the
\* document it was made of.
NoCopy == [buff |-> << >>, vrw |-> FALSE, alias |-> FALSE]

\* What a comparison returns: the int and the error.
Res(v) == [val |-> v, err |-> FALSE]
ResErr == [val |-> 0, err |-> TRUE]

\* More values to compare: lists of two elements, a map of two keys.
Operands ==
    Values \cup { List(<< Float(1), Float(0) >>), List(<< Float(1), Float(1) >>),
                  Map(<< String(0), Float(0), String(1), Float(0) >>) }

RECURSIVE CompareJSON(_, _)

\* Position by position from i on: the first difference decides, and a
\* proper prefix is the lesser.
RECURSIVE LexCompare(_, _, _)
LexCompare(as, bs, i) ==
    IF i > Len(as) /\ i > Len(bs) THEN 0
    ELSE IF i > Len(as) THEN -1
    ELSE IF i > Len(bs) THEN 1
    ELSE LET c == CompareJSON(as[i], bs[i]).val
         IN  IF c # 0 THEN c ELSE LexCompare(as, bs, i + 1)

\* a.Less(a.format(), b) of List and of Map (keys in order, each before
\* its value).
ListLess(a, b) == LexCompare(a.elems, b.elems, 1) = -1
MapLess(a, b) == LexCompare(a.elems, b.elems, 1) = -1

\* compareJSONBool ranking a above the containers only
CompareJSONBoolAboveContainers(a, b) ==
    IF b.kind = "Bool"
    THEN IF a.num = b.num THEN Res(0) ELSE IF a.num = 1 THEN Res(1) ELSE Res(-1)
    ELSE IF b.kind \in { "List", "Map" } THEN Res(1)
    ELSE Res(-1)

\* compareJSONBool taking a for the lower precedence
CompareJSONBoolLower(a, b) ==
    IF b.kind = "Bool"
    THEN IF a.num = b.num THEN Res(0) ELSE IF a.num = 1 THEN Res(1) ELSE Res(-1)
    ELSE Res(-1)

\* func compareJSONBool(a Bool, b Value) (int, error)
CompareJSONBool(a, b) ==
    IF b.kind = "Bool"
    THEN IF a.num = b.num THEN Res(0) ELSE IF a.num = 1 THEN Res(1) ELSE Res(-1)
    ELSE Res(1)

\* func compareJSONArray(a List, b Value) (int, error)
CompareJSONArray(a, b) ==
    IF b.kind = "Bool" THEN Res(-1)
    ELSE IF b.kind = "List"
    THEN IF ListLess(a, b) THEN Res(-1) ELSE IF ListLess(b, a) THEN Res(1) ELSE Res(0)
    ELSE Res(1)

\* compareJSONObject without List among the higher kinds
CompareJSONObjectNoList(a, b) ==
    IF b.kind \in { "Bool" } THEN Res(-1)
    ELSE IF b.kind = "Map"
    THEN IF MapLess(a, b) THEN Res(-1) ELSE IF MapLess(b, a) THEN Res(1) ELSE Res(0)
    ELSE Res(1)

\* func compareJSONObject(a Map, b Value) (int, error)
CompareJSONObject(a, b) ==
    IF b.kind \in { "Bool", "List" } THEN Res(-1)
    ELSE IF b.kind = "Map"
    THEN IF MapLess(a, b) THEN Res(-1) ELSE IF MapLess(b, a) THEN Res(1) ELSE Res(0)
    ELSE Res(1)

\* strings.Compare of two one-letter strings, and the comparison of floats.
Sign(x, y) == IF x > y THEN 1 ELSE IF x < y THEN -1 ELSE 0

\* compareJSONString without Map among the higher kinds
CompareJSONStringNoMap(a, b) ==
    IF b.kind \in { "Bool", "List" } THEN Res(-1)
    ELSE IF b.kind = "String" THEN Res(Sign(a.num, b.num))
    ELSE Res(1)

\* func compareJSONString(a String, b Value) (int, error)
CompareJSONString(a, b) ==
    IF b.kind \in { "Bool", "List", "Map" } THEN Res(-1)
    ELSE IF b.kind = "String" THEN Res(Sign(a.num, b.num))
    ELSE Res(1)

\* compareJSONNumber without Bool among the higher kinds
CompareJSONNumberNoBool(a, b) ==
    IF b.kind \in { "List", "Map", "String" } THEN Res(-1)
    ELSE IF b.kind = "Float" THEN Res(Sign(a.num, b.num))
    ELSE Res(1)

\* func compareJSONNumber(a Float, b Value) (int, error)
CompareJSONNumber(a, b) ==
    IF b.kind \in { "Bool", "List", "Map", "String" } THEN Res(-1)
    ELSE IF b.kind = "Float" THEN Res(Sign(a.num, b.num))
    ELSE Res(1)

\* The switch of compareJSON on the type of a.
Dispatch(a, b) ==
    IF a.kind = "Bool" THEN CompareJSONBool(a, b)
    ELSE IF a.kind = "List" THEN CompareJSONArray(a, b)
    ELSE IF a.kind = "Map" THEN CompareJSONObject(a, b)
    ELSE IF a.kind = "String" THEN CompareJSONString(a, b)
    ELSE IF a.kind = "Float" THEN CompareJSONNumber(a, b)
    ELSE ResErr

\* compareJSON going to the switch at once
CompareJSONNoNull(a, b) == Dispatch(a, b)

\* func compareJSON(a, b Value) (int, error)
CompareJSON(a, b) ==
    LET aNull == a.kind = "Null"
        bNull == b.kind = "Null"
    IN  IF aNull /\ bNull THEN Res(0)
        ELSE IF aNull /\ ~bNull THEN Res(-1)
        ELSE IF ~aNull /\ bNull THEN Res(1)
        ELSE Dispatch(a, b)

\* func (t JSONDoc) Compare(other JSONDoc) (int, error)
JSONDocCompare(t, other) ==
    LET left == JSONDocInner(t)
        right == JSONDocInner(other)
    IN  IF left.err THEN ResErr
        ELSE IF right.err THEN ResErr
        ELSE CompareJSON(left.value, right.value)

\* dec.PeekKind(): the kind tag at the position.
PeekKind(buff, pos) == buff[pos].tag

\* dec.byteSlice(start, end): the cells from start up to end, end excluded.
ByteSlice(buff, start, end) == SubSeq(buff, start, end - 1)

\* dec.SkipValue(nbf): the decoder after the value at pos.
SkipValue(buff, pos) == ReadValue(buff, pos)

\* The loop of skipJSON: count values are skipped from pos on.
RECURSIVE SkipValues(_, _, _)
SkipValues(buff, pos, count) ==
    IF count = 0 THEN Read(Null, pos)
    ELSE LET r == SkipValue(buff, pos)
         IN  IF r.err THEN r ELSE SkipValues(buff, r.pos, count - 1)

\* skipJSON(nbf, dec): the kind, the count, then count values.
SkipJSON(buff, pos) ==
    IF SkipKind(pos) > Len(buff) THEN ReadPast(SkipKind(pos))
    ELSE SkipValues(buff, SkipCount(SkipKind(pos)), buff[SkipKind(pos)].v)

\* What readJSON yields: the document, the position of the decoder after
\* it, the error, and whether it read beyond the end of the buffer.
Got(d, pos, r) == [doc |-> d, pos |-> pos, err |-> r.err, past |-> r.past]

\* readJSON that leaves the kind tag of a Null in place
ReadJSONKeepNull(buff, start) ==
    LET k == PeekKind(buff, start)
    IN  IF k = "Null" THEN Got(EmptyJSONDoc, start, Read(Null, start))
        ELSE IF k # "JSONDoc" THEN Got(NoDoc, start, ReadBad(start))
        ELSE LET r == SkipJSON(buff, start)
             IN  IF r.err THEN Got(NoDoc, r.pos, r)
                 ELSE Got([buff |-> ByteSlice(buff, start, r.pos), vrw |-> TRUE],
                          r.pos, r)

\* readJSON(nbf, dec), the decoder at start
ReadJSON(buff, start) ==
    LET k == PeekKind(buff, start)
    IN  IF k = "Null" THEN Got(EmptyJSONDoc, SkipKind(start), Read(Null, start))
        ELSE IF k # "JSONDoc" THEN Got(NoDoc, start, ReadBad(start))
        ELSE LET r == SkipJSON(buff, start)
             IN  IF r.err THEN Got(NoDoc, r.pos, r)
                 ELSE Got([buff |-> ByteSlice(buff, start, r.pos), vrw |-> TRUE],
                          r.pos, r)

\* jsonType.ReadFrom(nbf, reader): a document through ReadJSON, nil for a
\* Null whose kind is read, an error for any other kind.
ReadFrom(buff, start) ==
    LET k == PeekKind(buff, start)
    IN  IF k = "JSONDoc" THEN ReadJSON(buff, start)
        ELSE IF k = "Null" THEN Got(NoDoc, SkipKind(start), Read(Null, start))
        ELSE Got(NoDoc, start, ReadBad(start))

\* What stands at the decoder's position: a Null, a document, a document
\* cut short, an envelope with a count of 2, or a value of another kind.
Heads ==
    { WriteTo(Null), EmptyJSONDoc.buff, << KindCell("JSONDoc") >>,
      << KindCell("JSONDoc"), CountCell(1) >>,
      << KindCell("JSONDoc"), CountCell(1), KindCell("Float") >>,
      << KindCell("JSONDoc"), CountCell(2) >> \o WriteTo(Null) \o WriteTo(Bool(1)) }
        \cup { NewJSONDoc(v, FALSE).doc.buff : v \in JSONValues }
        \cup { WriteTo(v) : v \in { Bool(1), Float(0), String(1), Blob(0),
                                   List(<< Float(1) >>), Map(<< >>) } }

\* What stands before and after it in the buffer.
Around == { << >>, WriteTo(Float(1)) }

\* CopyOf handing on the buffer of t
CopyOfShared(t, vrw) == [buff |-> t.buff, vrw |-> vrw, alias |-> TRUE]

\* func (t JSONDoc) CopyOf(vrw ValueReadWriter) JSONDoc: the cells of t in
\* a buffer of their own (make, then copy).
CopyOf(t, vrw) == [buff |-> [i \in 1 .. Len(t.buff) |-> t.buff[i]], vrw |-> vrw,
                   alias |-> FALSE]

\* The documents NewJSONDoc and EmptyJSONDoc make.
Documents == { EmptyJSONDoc } \cup { NewJSONDoc(v, FALSE).doc : v \in Values }

\* A cell written over another one.
Scribbles == { KindCell("Null"), DataCell(1) }

\* What an operation on documents returned: the operation, a number, the
\* error, a value, and whether it read beyond the end of a buffer.
NoOut == [op |-> "none", val |-> 0, err |-> FALSE, value |-> Null, past |-> FALSE]


\* ------------------------------------------------------------------- refs
\* Strings are sequences of bytes.  The byte of an ASCII character:
Code(c) ==
    CASE c = "/" -> 47 [] c = "X" -> 88 [] c = "a" -> 97 [] c = "b" -> 98
      [] c = "d" -> 100 [] c = "e" -> 101 [] c = "f" -> 102 [] c = "g" -> 103
      [] c = "h" -> 104 [] c = "i" -> 105 [] c = "l" -> 108 [] c = "m" -> 109
      [] c = "n" -> 110 [] c = "o" -> 111 [] c = "r" -> 114 [] c = "s" -> 115
      [] c = "t" -> 116 [] c = "v" -> 118

\* The string of the characters cs.
Str(cs) == [i \in 1 .. Len(cs) |-> Code(cs[i])]

\* The two bytes of the letter e with an acute accent (U+00E9) in UTF-8.
EAcute == << 195, 169 >>

\* The double quote.
Quote == 34

\* const refPrefix = "refs/"
refPrefix == Str(<< "r", "e", "f", "s", "/" >>)

\* strings.HasPrefix(str, prefix)
HasPrefix(str, prefix) ==
    Len(str) >= Len(prefix) /\ SubSeq(str, 1, Len(prefix)) = prefix

\* str[n:], n counted from 0
From(str, n) == SubSeq(str, n + 1, Len(str))

\* func IsRef(str string) bool
IsRef(str) == HasPrefix(str, refPrefix)

\* The values of RefType.
InvalidRefType == Str(<< "i", "n", "v", "a", "l", "i", "d" >>)
BranchRef == Str(<< "h", "e", "a", "d", "s" >>)
RemoteRef == Str(<< "r", "e", "m", "o", "t", "e", "s" >>)
InternalRef == Str(<< "i", "n", "t", "e", "r", "n", "a", "l" >>)

\* var RefTypes
RefTypes == { BranchRef, RemoteRef, InternalRef }

\* The orders in which a range over the map RefTypes may yield its keys.
RefTypeOrders ==
    { o \in [1 .. 3 -> RefTypes] : \A i, j \in 1 .. 3 : i # j => o[i] # o[j] }

\* func PrefixForType(refType RefType) string
PrefixForType(refType) == refPrefix \o refType

\* type DoltRef struct
DoltRef(type, path) == [Type |-> type, Path |-> path]

\* var InvalidRef
InvalidRef == DoltRef(InvalidRefType, << >>)

\* The zero DoltRef, which UnmarshalJSON is called on.
ZeroRef == DoltRef(<< >>, << >>)

\* func (dr DoltRef) String() string
DoltRefString(dr) == PrefixForType(dr.Type) \o Str(<< "/" >>) \o dr.Path

\* What Parse and UnmarshalJSON yield: the ref, the error, and whether
\* the call panicked instead of returning.
Parsed(dr, e) == [ref |-> dr, err |-> e, panic |-> FALSE]
Panicked == [ref |-> InvalidRef, err |-> FALSE, panic |-> TRUE]

\* func NewBranchRef(branchName string) DoltRef
NewBranchRef(branchName) ==
    IF IsRef(branchName)
    THEN IF HasPrefix(branchName, PrefixForType(BranchRef))
         THEN Parsed(DoltRef(BranchRef, From(branchName, Len(PrefixForType(BranchRef)))),
                     FALSE)
         ELSE Panicked
    ELSE Parsed(DoltRef(BranchRef, branchName), FALSE)

\* The loop of Parse over RefTypes, from the i-th key of the order on.
RECURSIVE ParseLoop(_, _, _)
ParseLoop(str, order, i) ==
    IF i > Len(order) THEN Parsed(InvalidRef, TRUE)
    ELSE LET prefix == PrefixForType(order[i])
         IN  IF HasPrefix(str, prefix)
             THEN IF Len(prefix) + 1 > Len(str) THEN Panicked
                  ELSE Parsed(DoltRef(order[i], From(str, Len(prefix) + 1)), FALSE)
             ELSE ParseLoop(str, order, i + 1)

\* func Parse(str string) (DoltRef, error)
Parse(str, order) ==
    IF ~IsRef(str) THEN NewBranchRef(str) ELSE ParseLoop(str, order, 1)

\* The rune that range finds at byte i of str, and the bytes it takes (runes
\* of up to two bytes; other bytes yield utf8.RuneError).
DecodeRune(str, i) ==
    IF str[i] < 128 THEN [rune |-> str[i], size |-> 1]
    ELSE IF str[i] >= 192 /\ str[i] < 224 /\ i + 1 <= Len(str)
            /\ str[i + 1] >= 128 /\ str[i + 1] < 192
    THEN [rune |-> (str[i] % 32) * 64 + (str[i + 1] % 64), size |-> 2]
    ELSE [rune |-> 65533, size |-> 1]

\* for i, b := range str { data[i+1] = byte(b) }, from byte i on.
RECURSIVE RangeCopy(_, _, _)
RangeCopy(data, str, i) ==
    IF i > Len(str) THEN data
    ELSE LET d == DecodeRune(str, i)
         IN  RangeCopy([data EXCEPT ![i + 1] = d.rune % 256], str, i + d.size)

\* func (dr DoltRef) MarshalJSON() ([]byte, error)
MarshalJSON(dr) ==
    LET str == DoltRefString(dr)
        data == [i \in 1 .. Len(str) + 2 |->
                    IF i = 1 \/ i = Len(str) + 2 THEN Quote ELSE 0]
    IN  RangeCopy(data, str, 1)

\* func (dr *DoltRef) UnmarshalJSON(data []byte) error, on the ref dr
UnmarshalJSON(dr, data, order) ==
    LET r == Parse(SubSeq(data, 2, Len(data) - 1), order)
    IN  IF r.panic THEN r
        ELSE IF r.err THEN Parsed(dr, TRUE)
        ELSE Parsed(DoltRef(r.ref.Type, r.ref.Path), FALSE)

\* The paths of the refs looked at.
Paths ==
    { << >>, Str(<< "a" >>), Str(<< "a", "/", "b" >>), EAcute,
      Str(<< "a" >>) \o EAcute \o Str(<< "b" >>) }

\* The refs of the three types.
Refs == { DoltRef(t, path) : t \in RefTypes, path \in Paths }

\* Strings handed to Parse that are not made by String.
Strs ==
    { Str(<< "a" >>), refPrefix, PrefixForType(BranchRef),
      PrefixForType(BranchRef) \o Str(<< "X", "/", "a" >>),
      PrefixForType(RemoteRef) \o Str(<< "X" >>),
      refPrefix \o Str(<< "t", "a", "g", "s", "/", "a" >>),
      refPrefix \o Str(<< "t", "a", "g", "s" >>),
      PrefixForType(InternalRef) \o Str(<< "/", "a" >>) }

\* What was done with a ref or a string.
NoParsed == [op |-> "none", ref |-> InvalidRef, err |-> FALSE, panic |-> FALSE]

\* ------------------------------------------------------------------ state
VARIABLES
    db,          \* the persisted roots of the database (read only)
    sequences,   \* AutoIncrementTracker.sequences
    mu,          \* AutoIncrementTracker.mu: TRUE when locked
    pc,          \* position of each thread
    call,        \* the operation a thread executes and its arguments
    given,       \* Next: the coerced insert value
    curr,        \* Next: the counter value read
    maxAutoInc,  \* deepSet: the running maximum
    idx,         \* deepSet / DropTable: position of the scan
    ret,         \* value returned
    err,         \* TRUE when an error is returned
    pre,         \* history: the map when the thread took the lock
    watch,       \* history: one value Next generated earlier
    roots,       \* NewAutoIncrementTracker: the roots it is given
    built,       \* NewAutoIncrementTracker: "no", "yes" or "failed"
    jin,         \* JSON documents: the inner value handed to NewJSONDoc
    jdoc,        \* JSON documents: the document at hand
    jout,        \* JSON documents: what the last operation returned
    jcur,        \* JSON documents: the decoder readJSON reads from
    jarg,        \* JSON documents: the two values handed to compareJSON
    jcopy,       \* JSON documents: the document CopyOf returned
    rin,         \* refs: the ref and the string at hand
    rout,        \* refs: what the last operation returned
    fpc,         \* send-metrics: position of each process
    fowner,      \* send-metrics: the process holding the file lock, or 0
    fcount,      \* history: locks taken, Unlock calls, flushes per process
    fret         \* send-metrics: what SendMetrics returns

vars == << db, sequences, mu, pc, call, given, curr, maxAutoInc, idx, ret, err,
           pre, watch, roots, built, jin, jdoc, jout, jcur, jarg, jcopy,
           rin, rout, fpc, fowner, fcount, fret >>

jvars == << jin, jdoc, jout, jcur, jarg, jcopy >>

\* What the operations of a built tracker never touch.
rvars == << rin, rout >>

\* No ref has been looked at.
NoRef == rin = [ref |-> InvalidRef, str |-> << >>] /\ rout = NoParsed

fvars == << fpc, fowner, fcount, fret >>

Procs == 1 .. NumProcs

\* Nothing taken, unlocked or flushed.
NoCount == [acq |-> 0, unl |-> 0, flu |-> 0]

\* No process sends metrics.
NoFlush ==
    /\ fpc = [p \in Procs |-> "off"]
    /\ fowner = 0
    /\ fcount = [p \in Procs |-> NoCount]
    /\ fret = [p \in Procs |-> 0]

rest == << roots, built, jvars, rvars, fvars >>

\* No document has been made.
NoJSON ==
    /\ jin = Null /\ jdoc = NoDoc /\ jout = NoOut
    /\ jcur = NoCur /\ jarg = << Null, Null >> /\ jcopy = NoCopy

locals == << given, curr, maxAutoInc, idx >>

\* ------------------------------------------------------------------ calls
WSLists == { << >>, << "main" >>, << "feat" >>, << "main", "feat" >> }

\* op is the operation, tbl the table name after strings.ToLower, the
\* other fields the arguments of Set and DropTable.
NoCall == [op |-> "none", tbl |-> tt, newVal |-> 0, ws |-> "main", wses |-> << >>]

\* history: off (nothing is ever recorded), or on and holding at most one
\* value val that an earlier Next returned for table key on the monotonic
\* path; gen says that Next generated it (the caller supplied 0 or NULL).
WatchOff == [on |-> FALSE, set |-> FALSE, key |-> tt, val |-> 0, gen |-> FALSE]
NoWatch == [WatchOff EXCEPT !.on = TRUE]

InitThreads ==
    /\ mu = FALSE
    /\ pc = [t \in Threads |-> "idle"]
    /\ call = [t \in Threads |-> NoCall]
    /\ given = [t \in Threads |-> 0]
    /\ curr = [t \in Threads |-> 0]
    /\ maxAutoInc = [t \in Threads |-> 0]
    /\ idx = [t \in Threads |-> 0]
    /\ ret = [t \in Threads |-> 0]
    /\ err = [t \in Threads |-> FALSE]
    /\ pre = [t \in Threads |-> EmptyMap]

\* The tracker as NewAutoIncrementTracker builds it over the roots of db.
Init ==
    /\ db \in DBs
    /\ roots = StartupRoots(db)
    /\ sequences = NewAutoIncrementTracker(roots)
    /\ built = "yes"
    /\ InitThreads
    /\ NoFlush
    /\ NoRef
    /\ watch = WatchOff
    /\ NoJSON

InitGen ==
    /\ db \in GenDBs
    /\ roots = StartupRoots(db)
    /\ sequences = NewAutoIncrementTracker(roots)
    /\ built = "yes"
    /\ InitThreads
    /\ NoFlush
    /\ NoRef
    /\ watch = NoWatch
    /\ NoJSON

\* ------------------------------------------------------------- the mutex
\* Lock that does not wait: the operations run without the mutex
MuFreeNoLock == TRUE

\* a.mu.Lock() returns only when the mutex is free
MuFree == mu = FALSE

\* a.mu.Lock() followed by tableName = strings.ToLower(tableName)
Lock(t, c) ==
    /\ pc[t] = "idle"
    /\ MuFree
    /\ mu' = TRUE
    /\ call' = [call EXCEPT ![t] = [c EXCEPT !.tbl = ToLower(c.tbl)]]
    /\ pre' = [pre EXCEPT ![t] = sequences]

\* Leave the body with result r and error flag e; the deferred Unlock is
\* still to run.
Return(t, r, e) ==
    /\ pc' = [pc EXCEPT ![t] = "unlock"]
    /\ ret' = [ret EXCEPT ![t] = r]
    /\ err' = [err EXCEPT ![t] = e]

\* Next generated its result: the caller supplied 0 or NULL
Generated(t) == call[t].op = "Next" /\ ~err[t] /\ given[t] = 0

\* Next took the monotonic path: the caller supplied 0 or a value >= curr
Monotonic(t) ==
    call[t].op = "Next" /\ ~err[t] /\ (given[t] = 0 \/ given[t] >= curr[t])

\* The history after an operation returns: a value Next returned on the
\* monotonic path may be recorded
WatchAfter(t, rec) ==
    IF watch.on /\ Monotonic(t) /\ rec
    THEN [on |-> TRUE, set |-> TRUE, key |-> call[t].tbl, val |-> ret[t],
          gen |-> (given[t] = 0)]
    ELSE watch

\* defer a.mu.Unlock(), and the return to the caller
Unlock(t) ==
    /\ pc[t] = "unlock"
    /\ mu' = FALSE
    /\ pc' = [pc EXCEPT ![t] = "idle"]
    /\ call' = [call EXCEPT ![t] = NoCall]
    /\ given' = [given EXCEPT ![t] = 0]
    /\ curr' = [curr EXCEPT ![t] = 0]
    /\ maxAutoInc' = [maxAutoInc EXCEPT ![t] = 0]
    /\ idx' = [idx EXCEPT ![t] = 0]
    /\ ret' = [ret EXCEPT ![t] = 0]
    /\ err' = [err EXCEPT ![t] = FALSE]
    /\ pre' = [pre EXCEPT ![t] = EmptyMap]
    /\ \E rec \in BOOLEAN : watch' = WatchAfter(t, rec)
    /\ UNCHANGED << rest, db, sequences >>

\* ---------------------------------------------------------------- Current
Current(t, tableName) ==
    /\ Lock(t, [NoCall EXCEPT !.op = "Current", !.tbl = tableName])
    /\ Return(t, Get(sequences, ToLower(tableName)), FALSE)
    /\ UNCHANGED << rest, db, sequences, locals, watch >>

\* ------------------------------------------------------------------- Next
\* Lock; tbl = ToLower(tbl); given, err := CoerceAutoIncrementValue(insertVal);
\* curr := a.sequences[tbl]
NextRead(t, tbl, insertVal) ==
    /\ Lock(t, [NoCall EXCEPT !.op = "Next", !.tbl = tbl])
    /\ LET c == CoerceAutoIncrementValue(insertVal)
       IN  IF c.err
           THEN /\ Return(t, 0, TRUE)
                /\ UNCHANGED << given, curr >>
           ELSE /\ given' = [given EXCEPT ![t] = c.val]
                /\ curr' = [curr EXCEPT ![t] = Get(sequences, ToLower(tbl))]
                /\ pc' = [pc EXCEPT ![t] = "next_write"]
                /\ UNCHANGED << ret, err >>
    /\ UNCHANGED << rest, db, sequences, maxAutoInc, idx, watch >>

\* NextSeq comparing with > where the code compares with >=
NextSeqStrict(seqs, tbl, cur, giv) ==
    IF giv = 0 THEN Put(seqs, tbl, Inc(Get(seqs, tbl)))
    ELSE IF giv > cur THEN Put(seqs, tbl, Inc(giv))
    ELSE seqs

\* NextSeq storing the supplied value also when it is below the counter
NextSeqRegress(seqs, tbl, cur, giv) ==
    IF giv = 0 THEN Put(seqs, tbl, Inc(Get(seqs, tbl)))
    ELSE Put(seqs, tbl, Inc(giv))

\* The map after the three branches of Next.
NextSeq(seqs, tbl, cur, giv) ==
    IF giv = 0 THEN Put(seqs, tbl, Inc(Get(seqs, tbl)))
    ELSE IF giv >= cur THEN Put(seqs, tbl, Inc(giv))
    ELSE seqs

\* NextRet returning the counter after the increment
NextRetPost(cur, giv) == IF giv = 0 THEN Inc(cur) ELSE giv

\* The value Next returns.
NextRet(cur, giv) == IF giv = 0 THEN cur ELSE giv

NextWrite(t) ==
    /\ pc[t] = "next_write"
    /\ sequences' = NextSeq(sequences, call[t].tbl, curr[t], given[t])
    /\ Return(t, NextRet(curr[t], given[t]), FALSE)
    /\ UNCHANGED << rest, db, mu, call, locals, pre, watch >>

\* -------------------------------------------------------------------- Set
\* SetDirect with the comparison reversed
SetDirectReversed(newAutoIncVal, existing) == newAutoIncVal < existing

\* newAutoIncVal > existing: the direct assignment is taken
SetDirect(newAutoIncVal, existing) == newAutoIncVal > existing

Set(t, ws, tableName, newAutoIncVal) ==
    /\ Lock(t, [NoCall EXCEPT !.op = "Set", !.tbl = tableName,
                                !.newVal = newAutoIncVal, !.ws = ws])
    /\ LET existing == Get(sequences, ToLower(tableName))
       IN  IF SetDirect(newAutoIncVal, existing)
           THEN /\ sequences' = Put(sequences, ToLower(tableName), newAutoIncVal)
                /\ Return(t, 0, FALSE)
           ELSE \* return a.deepSet(ctx, ws, tableName, newAutoIncVal)
                /\ pc' = [pc EXCEPT ![t] = "deepset"]
                /\ UNCHANGED << sequences, ret, err >>
    /\ UNCHANGED << rest, db, locals, watch >>

\* deepSet whose give-up branch stores the new value
DeepSetStartAssign(t) ==
    /\ pc[t] = "deepset"
    /\ \E found \in BOOLEAN, versioned \in BOOLEAN, fail \in BOOLEAN :
         IF ~found \/ ~versioned
         THEN /\ Return(t, 0, FALSE)
              /\ sequences' = Put(sequences, call[t].tbl, call[t].newVal)
              /\ UNCHANGED << maxAutoInc, idx >>
         ELSE IF fail
         THEN /\ Return(t, 0, TRUE)
              /\ UNCHANGED << sequences, maxAutoInc, idx >>
         ELSE /\ maxAutoInc' = [maxAutoInc EXCEPT ![t] = call[t].newVal]
              /\ idx' = [idx EXCEPT ![t] = 1]
              /\ pc' = [pc EXCEPT ![t] = "deepset_scan"]
              /\ UNCHANGED << sequences, ret, err >>
    /\ UNCHANGED << rest, db, mu, call, given, curr, pre, watch >>

\* deepSet up to the loop over the refs: the database lookup, then
\* GetBranches and GetRemoteRefs, either of which may fail.
DeepSetStart(t) ==
    /\ pc[t] = "deepset"
    /\ \E found \in BOOLEAN, versioned \in BOOLEAN, fail \in BOOLEAN :
         IF ~found \/ ~versioned
         THEN /\ Return(t, 0, FALSE)
              /\ UNCHANGED << maxAutoInc, idx >>
         ELSE IF fail
         THEN /\ Return(t, 0, TRUE)
              /\ UNCHANGED << maxAutoInc, idx >>
         ELSE /\ maxAutoInc' = [maxAutoInc EXCEPT ![t] = call[t].newVal]
              /\ idx' = [idx EXCEPT ![t] = 1]
              /\ pc' = [pc EXCEPT ![t] = "deepset_scan"]
              /\ UNCHANGED << ret, err >>
    /\ UNCHANGED << rest, db, sequences, mu, call, given, curr, pre, watch >>

\* The ref is the head of the working set being updated, which is skipped.
IsOwningWS(b, ws) == b.type = "branch" /\ WorkingSetRefForHead(b) = ws

\* The running maximum after one iteration of the loop over rootRefs.
ScanRef(d, b, ws, tableName, maxSoFar) ==
    IF IsOwningWS(b, ws) THEN maxSoFar
    ELSE LET root == Rootish(d, b)
         IN  IF ~GetTableInsensitive(root, tableName) THEN maxSoFar
             ELSE IF ~root.ai THEN maxSoFar
             ELSE IF root.seq > maxSoFar THEN root.seq
             ELSE maxSoFar

\* deepSet storing the running maximum in the map after every ref
DeepSetScanEager(t) ==
    /\ pc[t] = "deepset_scan"
    /\ idx[t] <= Len(RootRefs)
    /\ \E fail \in BOOLEAN :
         IF fail /\ ~IsOwningWS(RootRefs[idx[t]], call[t].ws)
         THEN /\ Return(t, 0, TRUE)
              /\ UNCHANGED << sequences, maxAutoInc, idx >>
         ELSE /\ maxAutoInc' = [maxAutoInc EXCEPT ![t] =
                    ScanRef(db, RootRefs[idx[t]], call[t].ws, call[t].tbl, @)]
              /\ sequences' = Put(sequences, call[t].tbl, maxAutoInc'[t])
              /\ idx' = [idx EXCEPT ![t] = @ + 1]
              /\ UNCHANGED << pc, ret, err >>
    /\ UNCHANGED << rest, db, mu, call, given, curr, pre, watch >>

\* One iteration of the loop over rootRefs; a collaborator read may fail.
DeepSetScan(t) ==
    /\ pc[t] = "deepset_scan"
    /\ idx[t] <= Len(RootRefs)
    /\ \E fail \in BOOLEAN :
         IF fail /\ ~IsOwningWS(RootRefs[idx[t]], call[t].ws)
         THEN /\ Return(t, 0, TRUE)
              /\ UNCHANGED << maxAutoInc, idx >>
         ELSE /\ maxAutoInc' = [maxAutoInc EXCEPT ![t] =
                    ScanRef(db, RootRefs[idx[t]], call[t].ws, call[t].tbl, @)]
              /\ idx' = [idx EXCEPT ![t] = @ + 1]
              /\ UNCHANGED << pc, ret, err >>
    /\ UNCHANGED << rest, db, sequences, mu, call, given, curr, pre, watch >>

\* a.sequences[tableName] = maxAutoInc; return nil
DeepSetAssign(t) ==
    /\ pc[t] = "deepset_scan"
    /\ idx[t] > Len(RootRefs)
    /\ sequences' = Put(sequences, call[t].tbl, maxAutoInc[t])
    /\ Return(t, 0, FALSE)
    /\ UNCHANGED << rest, db, mu, call, locals, pre, watch >>

\* ------------------------------------------------------------ AddNewTable
\* AddNewTableSeq without the test for an existing entry
AddNewTableSeqAlways(seqs, tableName) == Put(seqs, tableName, 1)

\* AddNewTableSeq making a new map for the new table
AddNewTableSeqFresh(seqs, tableName) ==
    IF tableName \notin DOMAIN seqs THEN Put(EmptyMap, tableName, 1) ELSE seqs

\* if _, ok := a.sequences[tableName]; !ok { a.sequences[tableName] = 1 }
AddNewTableSeq(seqs, tableName) ==
    IF tableName \notin DOMAIN seqs THEN Put(seqs, tableName, 1) ELSE seqs

AddNewTable(t, tableName) ==
    /\ Lock(t, [NoCall EXCEPT !.op = "AddNewTable", !.tbl = tableName])
    /\ sequences' = AddNewTableSeq(sequences, ToLower(tableName))
    /\ Return(t, 0, FALSE)
    /\ UNCHANGED << rest, db, locals, watch >>

\* -------------------------------------------------------------- DropTable
\* Lock; tableName = ToLower(tableName); a.sequences[tableName] = 1.
\* wses are working sets of the database.
DropReset(t, tableName, wses) ==
    /\ \A i \in DOMAIN wses : db.hasWS[wses[i]]
    /\ Lock(t, [NoCall EXCEPT !.op = "DropTable", !.tbl = tableName, !.wses = wses])
    /\ sequences' = Put(sequences, ToLower(tableName), 1)
    /\ idx' = [idx EXCEPT ![t] = 1]
    /\ pc' = [pc EXCEPT ![t] = "drop_scan"]
    /\ UNCHANGED << rest, db, given, curr, maxAutoInc, ret, err, watch >>

\* DropScanWS with the comparison reversed
DropScanWSReversed(seqs, root, tableName) ==
    IF ~GetTableInsensitive(root, tableName) THEN seqs
    ELSE IF root.ai /\ root.seq < Get(seqs, tableName)
    THEN Put(seqs, tableName, root.seq)
    ELSE seqs

\* The map after one iteration of the loop over wses.
DropScanWS(seqs, root, tableName) ==
    IF ~GetTableInsensitive(root, tableName) THEN seqs
    ELSE IF root.ai /\ root.seq > Get(seqs, tableName)
    THEN Put(seqs, tableName, root.seq)
    ELSE seqs

\* One iteration of the loop over wses; a collaborator read may fail.
DropScan(t) ==
    /\ pc[t] = "drop_scan"
    /\ idx[t] <= Len(call[t].wses)
    /\ \E fail \in BOOLEAN :
         IF fail
         THEN /\ Return(t, 0, TRUE)
              /\ UNCHANGED << sequences, idx >>
         ELSE /\ sequences' = DropScanWS(sequences, db.ws[call[t].wses[idx[t]]],
                                         call[t].tbl)
              /\ idx' = [idx EXCEPT ![t] = @ + 1]
              /\ UNCHANGED << pc, ret, err >>
    /\ UNCHANGED << rest, db, mu, call, given, curr, maxAutoInc, pre, watch >>

\* return nil after the loop
DropDone(t) ==
    /\ pc[t] = "drop_scan"
    /\ idx[t] > Len(call[t].wses)
    /\ Return(t, 0, FALSE)
    /\ UNCHANGED << rest, db, sequences, mu, call, locals, pre, watch >>

\* ---------------------------------------------------------- specification
\* A caller enters an operation when it is idle; the operation starts once
\* a.mu.Lock() has returned.
CanEnter(t) == pc[t] = "idle" /\ MuFree

Next ==
    \E t \in Threads :
        \/ CanEnter(t) /\ \E n \in Names : Current(t, n)
        \/ CanEnter(t) /\ \E n \in Names, v \in InsertVals : NextRead(t, n, v)
        \/ NextWrite(t)
        \/ CanEnter(t) /\ \E w \in BranchNames, n \in Names, v \in U64 : Set(t, w, n, v)
        \/ DeepSetStart(t)
        \/ DeepSetScan(t)
        \/ DeepSetAssign(t)
        \/ CanEnter(t) /\ \E n \in Names : AddNewTable(t, n)
        \/ CanEnter(t) /\ \E n \in Names, l \in WSLists : DropReset(t, n, l)
        \/ DropScan(t)
        \/ DropDone(t)
        \/ Unlock(t)

\* The tracker over every database, nothing recorded.
Spec == Init /\ [][Next]_vars

\* The tracker with the history of the values Next returned.
SpecGen == InitGen /\ [][Next]_vars

\* Executions of Next calls only, with the history of the values returned.
NextOnly ==
    \E t \in Threads :
        \/ CanEnter(t) /\ \E n \in Names, v \in InsertVals : NextRead(t, n, v)
        \/ NextWrite(t)
        \/ Unlock(t)

SpecNext == InitGen /\ [][NextOnly]_vars

TypeOK ==
    /\ DOMAIN sequences \subseteq Keys
    /\ \A k \in DOMAIN sequences : sequences[k] \in U64
    /\ mu \in BOOLEAN
    /\ \A t \in Threads : ret[t] \in U64 /\ maxAutoInc[t] \in U64

\* ------------------------------------------------------------ properties
\* A thread has finished the body of op and still holds the lock.
Done(t, op) == pc[t] = "unlock" /\ call[t].op = op

\* The counter of the table of t's call when t took the lock.
PreVal(t) == Get(pre[t], call[t].tbl)

\* The counter of the table of t's call now: what Current would return.
CurVal(t) == Get(sequences, call[t].tbl)

\* C1: the values Next generates for a table (caller supplies 0 or NULL)
\* are strictly increasing over any sequence of Next, Set, AddNewTable and
\* DropTable: a generated value is greater than every value generated for
\* the same table before.
C1_GeneratedStrictlyIncreasing ==
    \A t \in Threads :
        (Done(t, "Next") /\ Generated(t) /\ watch.set /\ watch.gen
            /\ watch.key = call[t].tbl)
        => ret[t] > watch.val

\* C2: Next(t, v) with v coerced to 0 returns the counter c of t (0 when t
\* has no entry) and sets the counter to c + 1 in the counter's uint64
\* arithmetic, so that Current(t) is the returned value plus 1.
C2_NextZero ==
    \A t \in Threads :
        (Done(t, "Next") /\ ~err[t] /\ given[t] = 0)
        => /\ ret[t] = PreVal(t)
           /\ call[t].tbl \in DOMAIN sequences
           /\ sequences = Put(pre[t], call[t].tbl, Inc(PreVal(t)))
           /\ CurVal(t) = Inc(ret[t])

C2_Witness ==
    \E t \in Threads :
        /\ Done(t, "Next") /\ ~err[t] /\ given[t] = 0
        /\ call[t].tbl \notin DOMAIN pre[t]
        /\ ret[t] = 0 /\ CurVal(t) = 1

\* C3: catch-up.  Next(t, v) with v >= Current(t) returns v and sets
\* Current(t) to v + 1 (uint64 arithmetic).
C3_CatchUp ==
    \A t \in Threads :
        (Done(t, "Next") /\ ~err[t] /\ given[t] >= PreVal(t))
        => /\ ret[t] = given[t]
           /\ sequences = Put(pre[t], call[t].tbl, Inc(given[t]))
           /\ CurVal(t) = Inc(given[t])

C3_Witness ==
    \E t \in Threads :
        /\ Done(t, "Next") /\ ~err[t]
        /\ PreVal(t) > 0 /\ given[t] = PreVal(t)
        /\ ret[t] = given[t] /\ CurVal(t) = given[t] + 1

\* C4: non-regression.  Next(t, v) with v non-zero and v < Current(t)
\* returns v and leaves the counter map as it was; a Next(t, 0) returns the
\* counter as it finds it, hence the unchanged counter when it follows.
C4_NonRegression ==
    \A t \in Threads :
        /\ (Done(t, "Next") /\ ~err[t] /\ given[t] # 0 /\ given[t] < PreVal(t))
           => (ret[t] = given[t] /\ sequences = pre[t])
        /\ (pc[t] = "next_write" /\ given[t] = 0)
           => (curr[t] = PreVal(t) /\ sequences = pre[t])

C4_Witness ==
    \E t \in Threads :
        /\ Done(t, "Next") /\ ~err[t]
        /\ given[t] = 1 /\ PreVal(t) = MaxU
        /\ ret[t] = 1 /\ CurVal(t) = MaxU

\* C5: Next calls on one table are linearizable.  Each call acts as if it
\* ran alone at the moment it took the lock, and in that serial order the
\* values returned on the monotonic path are non-decreasing, two generated
\* values never being equal.
C5_NextLinearizable ==
    \A t \in Threads :
        (Done(t, "Next") /\ ~err[t])
        => /\ sequences = NextSeq(pre[t], call[t].tbl, PreVal(t), given[t])
           /\ ret[t] = NextRet(PreVal(t), given[t])
           /\ (Monotonic(t) /\ watch.set /\ watch.key = call[t].tbl)
              => /\ ret[t] >= watch.val
                 /\ (given[t] = 0 /\ watch.gen) => ret[t] # watch.val

\* C6: mutual exclusion.  At most one thread is inside an operation, it
\* holds the mutex, and while it is in the deepSet scan the counter map is
\* as it was when it took the lock: no other operation has taken effect.
C6_MutualExclusion ==
    /\ Cardinality({ t \in Threads : pc[t] # "idle" }) <= 1
    /\ mu <=> (\E t \in Threads : pc[t] # "idle")
    /\ \A t \in Threads :
         pc[t] \in { "deepset", "deepset_scan" } => sequences = pre[t]
    /\ \A t \in Threads :
         pc[t] = "drop_scan" =>
            \A k \in DOMAIN pre[t] \ { call[t].tbl } : Get(sequences, k) = pre[t][k]

C6_Witness ==
    \E t \in Threads :
        /\ pc[t] = "deepset_scan" /\ idx[t] = Len(RootRefs)
        /\ mu /\ sequences = pre[t]
        /\ \A u \in Threads \ {t} : pc[u] = "idle"

\* The roots of the database: the working sets, the branch heads and the
\* remote-tracking refs.
AllRoots(d) ==
    { d.ws[b] : b \in { x \in BranchNames : d.hasWS[x] } }
        \cup { d.commit[r] : r \in BranchNames \cup RemoteNames }

\* C7: in every state reachable by Next, Set, AddNewTable and DropTable the
\* counter of a table is at least the persisted AUTO_INCREMENT value of the
\* table on every branch head, working set and remote-tracking ref of the
\* database.  Stated for the states in which DropTable returns, which are
\* among those the claim covers.
C7_CounterAtLeastPersisted ==
    \A t \in Threads :
        (Done(t, "DropTable") /\ ~err[t])
        => \A r \in AllRoots(db) :
              (r.exists /\ r.ai) => Get(sequences, ToLower(r.name)) >= r.seq

\* The counter a table name addresses, spelled out name by name.
Canon(n) == IF n \in { Foo, foo, FOO } THEN foo ELSE tt

\* Thread t enters operation op in this step.
Enters(t, op) == pc[t] = "idle" /\ pc'[t] # "idle" /\ call'[t].op = op

\* C8: names that differ only in letter case address the same counter in
\* every operation, and every key of the counter map is lowercase.
C8_CaseInsensitive ==
    /\ DOMAIN sequences \subseteq { foo, tt }
    /\ [][ /\ DOMAIN sequences' \subseteq { foo, tt }
           /\ \A t \in Threads :
                /\ Enters(t, "Current") =>
                     \A n \in Names :
                        Current(t, n) => ret'[t] = Get(sequences, Canon(n))
                /\ Enters(t, "Next") =>
                     \A n \in Names :
                        (\E v \in InsertVals : NextRead(t, n, v))
                        => /\ call'[t].tbl = Canon(n)
                           /\ pc'[t] = "next_write"
                              => curr'[t] = Get(sequences, Canon(n))
                /\ Enters(t, "Set") =>
                     \A n \in Names :
                        (\E w \in BranchNames, v \in U64 : Set(t, w, n, v))
                        => /\ call'[t].tbl = Canon(n)
                           /\ \A k \in { foo, tt } \ { Canon(n) } :
                                Get(sequences', k) = Get(sequences, k)
                /\ Enters(t, "AddNewTable") =>
                     \A n \in Names :
                        AddNewTable(t, n)
                        => sequences' = AddNewTableSeq(sequences, Canon(n))
                /\ Enters(t, "DropTable") =>
                     \A n \in Names :
                        (\E l \in WSLists : DropReset(t, n, l))
                        => sequences' = Put(sequences, Canon(n), 1) ]_vars

\* Current("FOO") returns 2 after AddNewTable("Foo") and Next("foo", 0)
C8_Witness ==
    \E t \in Threads :
        /\ Done(t, "Current") /\ call[t].tbl = foo
        /\ ret[t] = 2 /\ sequences[foo] = 2

\* C9: AddNewTable sets the counter to 1 when the table has no entry and
\* leaves the map untouched when it has one; it never lowers a counter and
\* a second AddNewTable changes nothing.
C9_AddNewTable ==
    \A t \in Threads :
        Done(t, "AddNewTable")
        => /\ ~err[t]
           /\ call[t].tbl \in DOMAIN pre[t] => sequences = pre[t]
           /\ call[t].tbl \notin DOMAIN pre[t] => sequences = Put(pre[t], call[t].tbl, 1)
           /\ CurVal(t) >= PreVal(t)
           /\ AddNewTableSeq(sequences, call[t].tbl) = sequences

C9_Witness ==
    \E t \in Threads :
        /\ Done(t, "AddNewTable")
        /\ call[t].tbl \in DOMAIN pre[t] /\ PreVal(t) > 1
        /\ CurVal(t) = PreVal(t)

\* C10: Set with a value greater than the counter assigns exactly that
\* value, returns no error and never enters deepSet (no collaborator read);
\* Current and the next generated value are then that value.
C10_SetDirect ==
    \A t \in Threads :
        (pc[t] # "idle" /\ call[t].op = "Set" /\ call[t].newVal > PreVal(t))
        => /\ pc[t] = "unlock"
           /\ ~err[t]
           /\ idx[t] = 0
           /\ sequences = Put(pre[t], call[t].tbl, call[t].newVal)
           /\ CurVal(t) = call[t].newVal
           /\ NextRet(CurVal(t), 0) = call[t].newVal

C10_Witness ==
    \E t \in Threads :
        /\ Done(t, "Set") /\ PreVal(t) > 0
        /\ call[t].newVal > PreVal(t)
        /\ CurVal(t) = call[t].newVal

\* ----------------------------------------------------- Set through deepSet
\* C11: Set changes the counter of a table only when the new value is
\* greater than the registered one; a Set with a value that is not greater
\* leaves Current(t) unchanged.  Stated for the calls whose working set
\* exists.
C11_SetOnlyWhenGreater ==
    \A t \in Threads :
        (Done(t, "Set") /\ ~err[t] /\ db.hasWS[call[t].ws]
            /\ call[t].newVal <= PreVal(t))
        => CurVal(t) = PreVal(t)

\* The databases in which a branch head may hold the table next to the
\* working set of the branch: the head is the last commit, the working set
\* may have moved on or dropped the table.
HeadDBs ==
    { d \in [hasWS : [BranchNames -> BOOLEAN],
             ws : [BranchNames -> RootStates],
             commit : [BranchNames \cup RemoteNames -> RootStates]] :
        /\ d.hasWS["main"]
        /\ d.ws["main"] \in {NoTable} \cup AutoIncStates
        /\ d.commit["main"] \in {NoTable, AutoInc(MaxSeq)}
        /\ d.ws["feat"] \in IF d.hasWS["feat"] THEN {NoTable, AutoInc(1)} ELSE {NoTable}
        /\ d.commit["feat"] \in {NoTable, NoAutoInc, AutoInc(MaxSeq)}
        /\ d.commit["origin/main"] \in {NoTable, AutoInc(MaxSeq)} }

InitDeep ==
    /\ db \in HeadDBs
    /\ roots = StartupRoots(db)
    /\ sequences = NewAutoIncrementTracker(roots)
    /\ built = "yes"
    /\ InitThreads
    /\ NoFlush
    /\ NoRef
    /\ watch = WatchOff
    /\ NoJSON

\* Executions of Set calls only.
NextDeep ==
    \E t \in Threads :
        \/ CanEnter(t) /\ \E w \in BranchNames, n \in Names, v \in U64 : Set(t, w, n, v)
        \/ DeepSetStart(t)
        \/ DeepSetScan(t)
        \/ DeepSetAssign(t)
        \/ Unlock(t)

SpecDeep == InitDeep /\ [][NextDeep]_vars

\* The persisted AUTO_INCREMENT values of table tbl on every branch head,
\* every working set other than ws and every remote-tracking head.
PersistedElsewhere(d, ws, tbl) ==
    LET heads == { d.commit[b] : b \in BranchNames }
                    \cup { d.ws[b] : b \in { x \in BranchNames : d.hasWS[x] /\ x # ws } }
                    \cup { d.commit[r] : r \in RemoteNames }
    IN  { r.seq : r \in { x \in heads : GetTableInsensitive(x, tbl) /\ x.ai } }

SetMax(S) == CHOOSE m \in S : \A x \in S : x <= m

\* deepSet ran its scan to the end and assigned the counter.
DeepSetDone(t) ==
    Done(t, "Set") /\ ~err[t] /\ idx[t] = Len(RootRefs) + 1

\* C12: Set(ws, t, v) with v <= counter, on a located versioned database
\* with no failing read, assigns the maximum of v and the persisted value
\* of t on every branch head, every working set other than ws and every
\* remote-tracking head.  Stated for the calls whose working set exists.
C12_DeepSetMaximum ==
    \A t \in Threads :
        (DeepSetDone(t) /\ db.hasWS[call[t].ws])
        => CurVal(t) = SetMax({ call[t].newVal }
                                \cup PersistedElsewhere(db, call[t].ws, call[t].tbl))

\* C13: when Set falls through to deepSet and the database cannot be
\* located or is not versioned, the call returns without error and every
\* counter is as it was.  A return of deepSet without error before the scan
\* has started (idx = 0) is that give-up.
C13_DeepSetNoDatabase ==
    \A t \in Threads :
        (Done(t, "Set") /\ ~SetDirect(call[t].newVal, PreVal(t))
            /\ idx[t] = 0 /\ ~err[t])
        => /\ sequences = pre[t]
           /\ ret[t] = 0

C13_Witness ==
    \E t \in Threads :
        /\ Done(t, "Set") /\ ~err[t] /\ idx[t] = 0
        /\ call[t].newVal < PreVal(t)
        /\ CurVal(t) = PreVal(t) /\ sequences = pre[t]

\* C14: when a collaborator read fails at any point of Set/deepSet, Set
\* returns the error and the whole counter map is as it was before the call.
C14_SetErrorLeavesMap ==
    \A t \in Threads :
        (Done(t, "Set") /\ err[t])
        => /\ sequences = pre[t]
           /\ ~SetDirect(call[t].newVal, PreVal(t))

\* The read of the third ref fails after the scan has found a value that
\* differs from the counter.
C14_Witness ==
    \E t \in Threads :
        /\ Done(t, "Set") /\ err[t] /\ idx[t] = 3
        /\ maxAutoInc[t] > call[t].newVal /\ maxAutoInc[t] # PreVal(t)
        /\ sequences = pre[t]

\* -------------------------------------------------------------- DropTable
\* C15: when a collaborator read fails at any point of a DropTable scan,
\* DropTable returns the error and the counter of the table is the value it
\* had before the call.
C15_DropErrorKeepsCounter ==
    \A t \in Threads :
        (Done(t, "DropTable") /\ err[t]) => CurVal(t) = PreVal(t)

\* The maximum of 1 and the persisted values of tbl in the working sets
\* wses that hold tbl with an AUTO_INCREMENT column.
DropMax(d, wses, tbl) ==
    SetMax({ 1 } \cup { d.ws[wses[i]].seq :
                          i \in { j \in DOMAIN wses :
                                    /\ GetTableInsensitive(d.ws[wses[j]], tbl)
                                    /\ d.ws[wses[j]].ai } })

\* C16: after a successful DropTable(t, wses...) the counter of t is the
\* maximum of 1 and the persisted values of t in the supplied working sets
\* that hold t with an AUTO_INCREMENT column, whatever the counter was; the
\* other counters are as they were; the entry of t stays, so that a
\* following AddNewTable(t) leaves the counter at that value.
C16_DropTableMaximum ==
    \A t \in Threads :
        (Done(t, "DropTable") /\ ~err[t])
        => /\ CurVal(t) = DropMax(db, call[t].wses, call[t].tbl)
           /\ sequences = Put(pre[t], call[t].tbl, CurVal(t))
           /\ call[t].tbl \in DOMAIN sequences
           /\ AddNewTableSeq(sequences, call[t].tbl) = sequences

\* DropTable over a working set without the table and one holding it at
\* MaxSeq, on a counter that was higher.
C16_Witness ==
    \E t \in Threads :
        /\ Done(t, "DropTable") /\ ~err[t] /\ Len(call[t].wses) = 2
        /\ \E i \in DOMAIN call[t].wses : ~db.ws[call[t].wses[i]].exists
        /\ PreVal(t) > MaxSeq
        /\ CurVal(t) = MaxSeq /\ MaxSeq > 1

\* ------------------------------------------------------ conversion errors
\* The insert value does not convert to an unsigned 64-bit integer.
Unconvertible(insertVal) ==
    Uint64Convert(IF insertVal.k = "float"
                  THEN [k |-> "int", v |-> Round(insertVal.v)]
                  ELSE insertVal).err

\* C18: when the insert value cannot be converted to an unsigned 64-bit
\* integer, Next returns the conversion error with result 0 and leaves
\* every counter unchanged: no entry is created or advanced.
C18_NextConversionError ==
    /\ \A t \in Threads :
          (Done(t, "Next") /\ err[t]) => (ret[t] = 0 /\ sequences = pre[t])
    /\ [][ \A t \in Threads :
             Enters(t, "Next") =>
                \A n \in Names, v \in { x \in InsertVals : Unconvertible(x) } :
                   NextRead(t, n, v)
                   => /\ pc'[t] = "unlock"
                      /\ err'[t]
                      /\ ret'[t] = 0
                      /\ sequences' = sequences ]_vars

\* Next on a table without entry fails on the conversion; no entry exists
\* afterwards.
C18_Witness ==
    \E t \in Threads :
        /\ Done(t, "Next") /\ err[t] /\ ret[t] = 0
        /\ call[t].tbl \notin DOMAIN sequences
        /\ sequences = pre[t]

\* ------------------------------------------ NewAutoIncrementTracker alone
\* The roots a tracker may be built over: a root holds no table or one
\* table, named Foo, foo or T, with or without an AUTO_INCREMENT column.
NewRoots ==
    { NoTable }
        \cup [exists : {TRUE}, name : {Foo, foo, TT}, ai : {TRUE}, seq : 1 .. MaxSeq]
        \cup [exists : {TRUE}, name : {Foo, foo, TT}, ai : {FALSE}, seq : {MaxSeq}]

\* One root per ref at most.
RootLists == UNION { [1 .. n -> NewRoots] : n \in 0 .. Len(RootRefs) }

\* A database without any table.
NoDB ==
    [hasWS |-> [b \in BranchNames |-> FALSE],
     ws |-> [b \in BranchNames |-> NoTable],
     commit |-> [b \in BranchNames \cup RemoteNames |-> NoTable]]

InitNew ==
    /\ db = NoDB
    /\ roots \in RootLists
    /\ sequences = EmptyMap
    /\ built = "no"
    /\ InitThreads
    /\ NoFlush
    /\ NoRef
    /\ watch = WatchOff
    /\ NoJSON

\* NewAutoIncrementTracker(ctx, dbName, roots...): ResolveRootValue or
\* IterTables may fail, and the empty tracker is returned with the error.
NewTracker ==
    /\ built = "no"
    /\ \E fail \in BOOLEAN :
         IF fail
         THEN sequences' = EmptyMap /\ built' = "failed"
         ELSE sequences' = NewAutoIncrementTracker(roots) /\ built' = "yes"
    /\ UNCHANGED << jvars, rvars, fvars, db, roots, mu, pc, call, locals, ret, err, pre, watch >>

\* The constructor, then Current on the tracker it returned.
NextNew ==
    \/ NewTracker
    \/ \E t \in Threads :
          \/ built = "yes" /\ CanEnter(t) /\ \E n \in Names : Current(t, n)
          \/ Unlock(t)

SpecNew == InitNew /\ [][NextNew]_vars

\* The greatest persisted value among the tables of rs whose name folds to
\* n and whose schema has an AUTO_INCREMENT column; 0 when there is none.
RootsMax(rs, n) ==
    SetMax({ 0 } \cup { rs[i].seq :
                          i \in { j \in DOMAIN rs :
                                    /\ rs[j].exists /\ rs[j].ai
                                    /\ ToLower(rs[j].name) = n } })

Perms(n) == { f \in [1 .. n -> 1 .. n] : \A i, j \in 1 .. n : i # j => f[i] # f[j] }

\* C17: after NewAutoIncrementTracker succeeds, Current(n) is the greatest
\* persisted AUTO_INCREMENT value over the tables of the roots whose name
\* folds to n and that have an AUTO_INCREMENT column; a name without such a
\* table has no entry; the order of the roots does not matter.
C17_ConstructorMaximum ==
    built = "yes" =>
        /\ \A n \in Keys :
              /\ Get(sequences, n) = RootsMax(roots, n)
              /\ n \in DOMAIN sequences <=> RootsMax(roots, n) > 0
        /\ \A f \in Perms(Len(roots)) :
              NewAutoIncrementTracker([i \in DOMAIN roots |-> roots[f[i]]]) = sequences
        /\ \A t \in Threads :
              Done(t, "Current") => ret[t] = RootsMax(roots, call[t].tbl)

\* Two roots hold Foo at MaxSeq and foo at 1, in this order; Current(foo)
\* returns MaxSeq.
C17_Witness ==
    /\ built = "yes" /\ Len(roots) = 2 /\ MaxSeq > 1
    /\ roots[1] = [exists |-> TRUE, name |-> Foo, ai |-> TRUE, seq |-> MaxSeq]
    /\ roots[2] = [exists |-> TRUE, name |-> foo, ai |-> TRUE, seq |-> 1]
    /\ \E t \in Threads :
          Done(t, "Current") /\ call[t].tbl = foo /\ ret[t] = MaxSeq

\* ------------------------------------------- operations on JSON documents
\* The variables of the tracker, which the document operations leave alone.
tvars == << db, sequences, mu, pc, call, given, curr, maxAutoInc, idx, ret, err,
            pre, watch, roots, built >>

InitJSON ==
    /\ db = NoDB
    /\ roots = << >>
    /\ sequences = EmptyMap
    /\ built = "no"
    /\ InitThreads
    /\ NoFlush
    /\ NoRef
    /\ watch = WatchOff
    /\ NoJSON

\* d, err := NewJSONDoc(nbf, value)
JNewJSONDoc ==
    /\ \E value \in Values, fail \in BOOLEAN :
         LET r == NewJSONDoc(value, fail)
         IN  /\ jin' = value
             /\ jdoc' = r.doc
             /\ jout' = [NoOut EXCEPT !.op = "NewJSONDoc", !.err = r.err]
    /\ UNCHANGED << jcur, jarg, jcopy, tvars, rvars, fvars >>

\* d := EmptyJSONDoc(nbf)
JEmptyJSONDoc ==
    /\ jdoc' = EmptyJSONDoc
    /\ jout' = [NoOut EXCEPT !.op = "EmptyJSONDoc"]
    /\ UNCHANGED << jin, jcur, jarg, jcopy, tvars, rvars, fvars >>

\* d.Len()
JLen ==
    /\ jdoc # NoDoc
    /\ jout' = [NoOut EXCEPT !.op = "Len", !.val = JSONDocLen(jdoc)]
    /\ UNCHANGED << jin, jdoc, jcur, jarg, jcopy, tvars, rvars, fvars >>

\* d.Empty(), the result as 0 or 1
JEmpty ==
    /\ jdoc # NoDoc
    /\ jout' = [NoOut EXCEPT !.op = "Empty",
                              !.val = IF JSONDocEmpty(jdoc) THEN 1 ELSE 0]
    /\ UNCHANGED << jin, jdoc, jcur, jarg, jcopy, tvars, rvars, fvars >>

\* v, err := d.Inner()
JInner ==
    /\ jdoc # NoDoc
    /\ LET r == JSONDocInner(jdoc)
       IN  jout' = [NoOut EXCEPT !.op = "Inner", !.err = r.err, !.value = r.value,
                                 !.past = r.past]
    /\ UNCHANGED << jin, jdoc, jcur, jarg, jcopy, tvars, rvars, fvars >>

\* d, err := readJSON(nbf, dec), val being where the decoder stood
JReadJSON ==
    /\ \E before \in Around, head \in Heads, after \in Around :
         LET buff == before \o head \o after
             start == Len(before) + 1
             r == ReadJSON(buff, start)
         IN  /\ jcur' = [buff |-> buff, pos |-> r.pos]
             /\ jdoc' = r.doc
             /\ jout' = [NoOut EXCEPT !.op = "readJSON", !.val = start,
                                       !.err = r.err, !.past = r.past]
    /\ UNCHANGED << jin, jarg, jcopy, tvars, rvars, fvars >>

\* v, err := ti.ReadFrom(nbf, reader), val being where the reader stood
JReadFrom ==
    /\ \E before \in Around, head \in Heads, after \in Around :
         LET buff == before \o head \o after
             start == Len(before) + 1
             r == ReadFrom(buff, start)
         IN  /\ jcur' = [buff |-> buff, pos |-> r.pos]
             /\ jdoc' = r.doc
             /\ jout' = [NoOut EXCEPT !.op = "ReadFrom", !.val = start,
                                       !.err = r.err, !.past = r.past]
    /\ UNCHANGED << jin, jarg, jcopy, tvars, rvars, fvars >>

NextJSON ==
    \/ JNewJSONDoc
    \/ JEmptyJSONDoc
    \/ JLen
    \/ JEmpty
    \/ JInner

\* Documents are made and inspected; no tracker is involved.
SpecJSON == InitJSON /\ [][NextJSON]_vars

\* C19: Len(d) is 1 for every JSON document d, whatever its inner value,
\* the document of EmptyJSONDoc included.
C19_LenIsOne ==
    /\ jout.op = "Len" => jout.val = 1
    /\ jdoc # NoDoc => JSONDocLen(jdoc) = 1

\* Len was called on the empty document.
C19_Witness ==
    /\ jout.op = "Len" /\ jout.val = 1
    /\ jdoc = EmptyJSONDoc /\ Count(jdoc) = 0

\* C20: Empty(d) is true if and only if the count in the envelope of d is
\* 0: true for EmptyJSONDoc(), false for NewJSONDoc(v).
C20_EmptyIffCountZero ==
    jout.op = "Empty" => (jout.val = 1 <=> Count(jdoc) = 0)

\* The document at hand is the one NewJSONDoc made of jin.
MadeOf(d, v) == d = NewJSONDoc(v, FALSE).doc

\* C21: for every inner value v of a JSON kind, Inner(NewJSONDoc(v))
\* succeeds and yields a value equal to v.
C21_RoundTrip ==
    (jout.op = "Inner" /\ jin.kind \in JSONKinds /\ MadeOf(jdoc, jin))
        => (~jout.err /\ jout.value = jin)

\* Inner gave back the Map a document was made of.
C21_Witness ==
    /\ jout.op = "Inner" /\ MadeOf(jdoc, jin)
    /\ jin = Map(<< String(0), Float(1) >>) /\ jout.value = jin

\* C22: Inner on an empty document (the JSONDoc kind tag, a count of 0 and
\* nothing else) returns a value of kind Null without error and without
\* reading beyond the end of the buffer.
C22_InnerOfEmpty ==
    (jout.op = "Inner" /\ jdoc = EmptyJSONDoc)
        => (jout.value.kind = "Null" /\ ~jout.err /\ ~jout.past)

\* Two values are at hand, and nothing has been done with them.
InitCompare ==
    /\ db = NoDB
    /\ roots = << >>
    /\ sequences = EmptyMap
    /\ built = "no"
    /\ InitThreads
    /\ NoFlush
    /\ NoRef
    /\ watch = WatchOff
    /\ jin = Null /\ jdoc = NoDoc /\ jout = NoOut /\ jcur = NoCur /\ jcopy = NoCopy
    /\ jarg \in Operands \X Operands

\* c, err := compareJSON(a, b)
JCompareJSON ==
    /\ jout.op = "none"
    /\ LET r == CompareJSON(jarg[1], jarg[2])
       IN  jout' = [NoOut EXCEPT !.op = "compareJSON", !.val = r.val, !.err = r.err]
    /\ UNCHANGED << jin, jdoc, jcur, jarg, jcopy, tvars, rvars, fvars >>

\* c, err := t.Compare(other), t and other being the documents of a and b
JCompare ==
    /\ jout.op = "none"
    /\ LET t == NewJSONDoc(jarg[1], FALSE).doc
           other == NewJSONDoc(jarg[2], FALSE).doc
           r == JSONDocCompare(t, other)
       IN  /\ jdoc' = t
           /\ jout' = [NoOut EXCEPT !.op = "Compare", !.val = r.val, !.err = r.err]
    /\ UNCHANGED << jin, jcur, jarg, jcopy, tvars, rvars, fvars >>

NextCompare ==
    \/ JCompareJSON
    \/ JCompare

\* Two values are compared, as they are or as documents.
SpecCompare == InitCompare /\ [][NextCompare]_vars

\* A document is at hand, and nothing has been done with it.
InitCopy ==
    /\ db = NoDB
    /\ roots = << >>
    /\ sequences = EmptyMap
    /\ built = "no"
    /\ InitThreads
    /\ NoFlush
    /\ NoRef
    /\ watch = WatchOff
    /\ jin = Null /\ jout = NoOut /\ jcur = NoCur /\ jcopy = NoCopy
    /\ jarg = << Null, Null >>
    /\ jdoc \in Documents

\* c := t.CopyOf(vrw)
JCopyOf ==
    /\ jout.op = "none"
    /\ \E vrw \in BOOLEAN : jcopy' = CopyOf(jdoc, vrw)
    /\ jout' = [NoOut EXCEPT !.op = "CopyOf"]
    /\ UNCHANGED << jin, jdoc, jcur, jarg, tvars, rvars, fvars >>

\* t.buff[i] = c after the copy: the cell of c.buff changes with it when
\* the two are one storage.
JWriteDoc ==
    /\ jout.op = "CopyOf"
    /\ \E i \in 1 .. Len(jdoc.buff), c \in Scribbles :
         /\ jdoc' = [jdoc EXCEPT !.buff[i] = c]
         /\ jcopy' = IF jcopy.alias THEN [jcopy EXCEPT !.buff[i] = c] ELSE jcopy
         /\ jout' = [NoOut EXCEPT !.op = "writeDoc", !.val = i]
    /\ UNCHANGED << jin, jcur, jarg, tvars, rvars, fvars >>

\* c.buff[i] = c after the copy
JWriteCopy ==
    /\ jout.op = "CopyOf"
    /\ \E i \in 1 .. Len(jcopy.buff), c \in Scribbles :
         /\ jcopy' = [jcopy EXCEPT !.buff[i] = c]
         /\ jdoc' = IF jcopy.alias THEN [jdoc EXCEPT !.buff[i] = c] ELSE jdoc
         /\ jout' = [NoOut EXCEPT !.op = "writeCopy", !.val = i]
    /\ UNCHANGED << jin, jcur, jarg, tvars, rvars, fvars >>

NextCopy ==
    \/ JCopyOf
    \/ JWriteDoc
    \/ JWriteCopy

\* A document is copied, and one of the two buffers is written to.
SpecCopy == InitCopy /\ [][NextCopy]_vars

\* err := skipJSON(nbf, dec), val being where the decoder stood
JSkipJSON ==
    /\ \E before \in Around, head \in Heads, after \in Around :
         LET buff == before \o head \o after
             start == Len(before) + 1
             r == SkipJSON(buff, start)
         IN  /\ jcur' = [buff |-> buff, pos |-> r.pos]
             /\ jout' = [NoOut EXCEPT !.op = "skipJSON", !.val = start,
                                       !.err = r.err, !.past = r.past]
    /\ UNCHANGED << jin, jdoc, jarg, jcopy, tvars, rvars, fvars >>

NextSkip == JSkipJSON

\* Documents are skipped in decoders.
SpecSkip == InitJSON /\ [][NextSkip]_vars

NextDecode ==
    \/ JReadJSON
    \/ JReadFrom
    \/ JInner

\* Documents are read from decoders and opened.
SpecRead == InitJSON /\ [][NextDecode]_vars

\* The number of cells of the document at pos: the kind, the count and the
\* inner value when the count is 1.
RECURSIVE Extent(_, _)
Extent(buff, pos) ==
    IF buff[pos].tag = "JSONDoc"
    THEN 2 + (IF buff[pos + 1].v = 0 THEN 0 ELSE Extent(buff, pos + 2))
    ELSE IF buff[pos].tag = "Null" THEN 1
    ELSE IF buff[pos].tag \in { "Bool", "Float", "String" } THEN 2
    ELSE 2 + (IF buff[pos + 1].v = 0 THEN 0
              ELSE IF buff[pos].tag = "List" THEN Extent(buff, pos + 2)
              ELSE Extent(buff, pos + 2) + Extent(buff, pos + 2 + Extent(buff, pos + 2)))

\* One of the whole documents of Heads stands at pos.
WholeAt(buff, pos) ==
    \E d \in { EmptyJSONDoc.buff } \cup { NewJSONDoc(v, FALSE).doc.buff : v \in JSONValues } :
        /\ pos + Len(d) - 1 <= Len(buff)
        /\ SubSeq(buff, pos, pos + Len(d) - 1) = d

\* C23: readJSON on a decoder.  If the next kind is Null, exactly the kind
\* tag is consumed and the empty document is returned; if the next kind is
\* JSONDoc, the decoder advances past the kind, the count and count inner
\* values, and the document returned owns exactly the cells between the old
\* and the new position; for any other next kind an error is returned and
\* the decoder is not advanced.  ReadFrom moves the reader likewise.
C23_ReadJSONCursor ==
    jout.op \in { "readJSON", "ReadFrom" } =>
        LET start == jout.val
            k == jcur.buff[start].tag
        IN  /\ k = "Null" =>
                  /\ ~jout.err /\ jcur.pos = start + 1
                  /\ jout.op = "readJSON" => jdoc = EmptyJSONDoc
            /\ (k = "JSONDoc" /\ WholeAt(jcur.buff, start)) =>
                  /\ ~jout.err
                  /\ jcur.pos = start + Extent(jcur.buff, start)
                  /\ jdoc.buff = SubSeq(jcur.buff, start, jcur.pos - 1)
            /\ k \notin { "Null", "JSONDoc" } =>
                  /\ jout.err /\ jcur.pos = start /\ jdoc = NoDoc

\* readJSON took a document holding a List from between two other values.
C23_Witness ==
    /\ jout.op = "readJSON" /\ ~jout.err
    /\ jcur.buff = WriteTo(Float(1)) \o NewJSONDoc(List(<< Bool(1) >>), FALSE).doc.buff
                        \o WriteTo(Float(1))
    /\ jout.val = 3 /\ jcur.pos = 9
    /\ jdoc = NewJSONDoc(List(<< Bool(1) >>), FALSE).doc

\* The last operation compared jarg[1] with jarg[2].
Compared == jout.op \in { "compareJSON", "Compare" }

\* The values of the JSON kinds.
Legal == { v \in Operands : v.kind \in JSONKinds }

\* C24: for every pair of legal JSON values a and b, Compare(a, b) is
\* -Compare(b, a), and Compare(a, a) is 0.
C24_Antisymmetry ==
    (Compared /\ jarg[1] \in Legal /\ jarg[2] \in Legal) =>
        /\ ~jout.err
        /\ jout.val = 0 - CompareJSON(jarg[2], jarg[1]).val
        /\ jarg[1] = jarg[2] => jout.val = 0

\* A String was compared with a Map.
C24_Witness ==
    /\ Compared /\ jarg = << String(1), Map(<< String(0), Null >>) >>
    /\ jout.val = -1

\* C25: for every triple of legal JSON values a, b, c, Compare(a, b) <= 0
\* and Compare(b, c) <= 0 imply Compare(a, c) <= 0; and the result for two
\* values of different kinds is the same for all values of these two kinds,
\* so that the kinds are ranked in one line.
C25_Transitivity ==
    (Compared /\ jarg[1] \in Legal /\ jarg[2] \in Legal) =>
        /\ \A c \in Legal :
              (jout.val <= 0 /\ CompareJSON(jarg[2], c).val <= 0)
                  => CompareJSON(jarg[1], c).val <= 0
        /\ jarg[1].kind # jarg[2].kind =>
              /\ jout.val # 0
              /\ \A a \in Legal, b \in Legal :
                    (a.kind = jarg[1].kind /\ b.kind = jarg[2].kind)
                        => CompareJSON(a, b).val = jout.val

\* A Map was compared with a List, which is below every Bool.
C25_Witness ==
    /\ Compared /\ jarg = << Map(<< >>), List(<< Float(1), Float(0) >>) >>
    /\ jout.val = -1
    /\ CompareJSON(jarg[2], Bool(0)).val = -1

\* The precedence the claim gives the kinds, and the one the per-kind
\* functions give them.
ClaimedRank ==
    [k \in JSONKinds |->
        CASE k = "Map" -> 5 [] k = "List" -> 4 [] k = "String" -> 3
          [] k = "Float" -> 2 [] k = "Bool" -> 1 [] OTHER -> 0]
KindRank ==
    [k \in JSONKinds |->
        CASE k = "Bool" -> 5 [] k = "List" -> 4 [] k = "Map" -> 3
          [] k = "String" -> 2 [] k = "Float" -> 1 [] OTHER -> 0]

C27_NullHandling ==
    (Compared /\ jarg[1] \in Legal /\ jarg[2] \in Legal) =>
        /\ (jarg[1] = Null /\ jarg[2] = Null) => (~jout.err /\ jout.val = 0)
        /\ (jarg[1] = Null /\ jarg[2] # Null) => (~jout.err /\ jout.val = -1)
        /\ (jarg[1] # Null /\ jarg[2] = Null) => (~jout.err /\ jout.val = 1)

\* The empty List was compared with Null.
C27_Witness ==
    /\ Compared /\ jarg = << List(<< >>), Null >>
    /\ jout.val = 1 /\ ~jout.err

\* C28: the comparator returns an error exactly when an operand is of a
\* kind outside Null, Bool, Number, String, Array, Object: never when both
\* operands are of these kinds, always when the left or the right one is
\* not.
C28_ErrorIffMalformed ==
    Compared => (jout.err <=> (jarg[1] \notin Legal \/ jarg[2] \notin Legal))

\* C29: CopyOf(d) returns a document whose bytes are equal to the bytes of
\* d and whose buffer is independent of the buffer of d: after the copy, a
\* write into the storage of either document never changes the bytes of the
\* other.
C29_CopyIndependent ==
    /\ [](jout.op = "CopyOf" => jcopy.buff = jdoc.buff)
    /\ [][(jout'.op = "writeDoc" => jcopy'.buff = jcopy.buff)
             /\ (jout'.op = "writeCopy" => jdoc'.buff = jdoc.buff)]_vars

\* The document was written to after the copy, and the copy still holds
\* the cells of the document NewJSONDoc made.
C29_Witness ==
    /\ jout.op = "writeDoc" /\ jout.val = 3
    /\ jcopy.buff = NewJSONDoc(Float(1), FALSE).doc.buff
    /\ jdoc.buff # jcopy.buff

\* C30: NewJSONDoc(inner) fails, returning no populated document, whenever
\* inner is of a kind that is not JSON-representable (anything other than
\* Null, Bool, Number, String, Array, Object).
C30_NewJSONDocBadInner ==
    (jout.op = "NewJSONDoc" /\ jin.kind \notin JSONKinds)
        => (jout.err /\ jdoc \in { NoDoc, EmptyJSONDoc })

\* The document holds exactly one inner value after its kind and count.
OneInner(d) ==
    LET r == ReadValue(d.buff, 3)
    IN  ~r.err /\ r.pos = Len(d.buff) + 1

\* C31: every document that NewJSONDoc, EmptyJSONDoc or readJSON returns
\* has an envelope whose count is 0 or 1, and a document with a count of 1
\* holds exactly one inner value; a buffer whose JSONDoc count is greater
\* than 1 is never made a document.
C31_CountZeroOrOne ==
    (jout.op \in { "NewJSONDoc", "EmptyJSONDoc", "readJSON" } /\ jdoc # NoDoc) =>
        /\ Count(jdoc) \in { 0, 1 }
        /\ Count(jdoc) = 1 => OneInner(jdoc)

\* C32: skipJSON consumes exactly what readJSON consumes: wherever readJSON
\* succeeds (the next kind is JSONDoc, or Null standing for the empty
\* document), skipJSON started at the same position leaves the decoder at
\* the position readJSON leaves it at.
C32_SkipAsRead ==
    (jout.op = "skipJSON" /\ ~ReadJSON(jcur.buff, jout.val).err) =>
        (~jout.err /\ jcur.pos = ReadJSON(jcur.buff, jout.val).pos)

\* C33: a Bool on the left compared with a Number or a String on the right
\* is the higher side: Compare(b, n) and Compare(b, s) are +1 for every
\* Bool b, Number n and String s, and the mirrored calls Compare(n, b) and
\* Compare(s, b) are -1.
C33_BoolAboveScalars ==
    Compared =>
        /\ (jarg[1].kind = "Bool" /\ jarg[2].kind \in { "Float", "String" })
              => (~jout.err /\ jout.val = 1)
        /\ (jarg[1].kind \in { "Float", "String" } /\ jarg[2].kind = "Bool")
              => (~jout.err /\ jout.val = -1)

\* false was compared with a String and was the greater.
C33_Witness ==
    /\ Compared /\ jarg = << Bool(0), String(1) >>
    /\ jout.val = 1 /\ ~jout.err

\* C34: Next never lowers a counter: for every table and every supplied
\* value of the counter type, the largest included, Current after Next is
\* at least Current before it; the counter never wraps around to 0.
C34_NextNeverLowers ==
    \A t \in Threads :
        (Done(t, "Next") /\ ~err[t]) => CurVal(t) >= PreVal(t)

\* The entry of a table in a counter map: whether there is one, and its
\* counter.
Entry(seqs, k) == << k \in DOMAIN seqs, Get(seqs, k) >>

\* C35: Current changes no counter, and each of Next, Set, AddNewTable and
\* DropTable on a table leaves the counter, and the presence or absence of
\* an entry, of every table whose lowercased name differs unchanged, on
\* success and on error.
C35_PerTableIsolation ==
    \A t \in Threads :
        pc[t] # "idle" =>
            /\ call[t].op = "Current" => sequences = pre[t]
            /\ \A k \in (DOMAIN sequences) \cup (DOMAIN pre[t]) :
                  ToLower(k) # ToLower(call[t].tbl)
                      => Entry(sequences, k) = Entry(pre[t], k)

\* AddNewTable made an entry for foo beside the one of t.
C35_Witness ==
    \E t \in Threads :
        /\ Done(t, "AddNewTable") /\ call[t].tbl = foo
        /\ foo \notin DOMAIN pre[t] /\ foo \in DOMAIN sequences
        /\ tt \in DOMAIN pre[t] /\ Entry(sequences, tt) = Entry(pre[t], tt)

\* --------------------------------------------------- operations on refs
\* The variables the operations on refs leave alone.
nonrvars == << tvars, jvars, fvars >>

\* A ref and a string are at hand, and nothing has been done with them.
InitRef ==
    /\ db = NoDB
    /\ roots = << >>
    /\ sequences = EmptyMap
    /\ built = "no"
    /\ InitThreads
    /\ NoFlush
    /\ watch = WatchOff
    /\ NoJSON
    /\ rin \in [ref : Refs, str : Strs]
    /\ rout = NoParsed

\* r, err := Parse(dr.String())
RParseString ==
    /\ rout.op = "none"
    /\ \E order \in RefTypeOrders :
         LET r == Parse(DoltRefString(rin.ref), order)
         IN  rout' = [op |-> "ParseString", ref |-> r.ref, err |-> r.err,
                      panic |-> r.panic]
    /\ UNCHANGED << rin, nonrvars >>

\* data, _ := dr.MarshalJSON(); var r DoltRef; err := r.UnmarshalJSON(data)
RJSON ==
    /\ rout.op = "none"
    /\ \E order \in RefTypeOrders :
         LET r == UnmarshalJSON(ZeroRef, MarshalJSON(rin.ref), order)
         IN  rout' = [op |-> "JSON", ref |-> r.ref, err |-> r.err, panic |-> r.panic]
    /\ UNCHANGED << rin, nonrvars >>

\* r, err := Parse(str)
RParse ==
    /\ rout.op = "none"
    /\ \E order \in RefTypeOrders :
         LET r == Parse(rin.str, order)
         IN  rout' = [op |-> "Parse", ref |-> r.ref, err |-> r.err, panic |-> r.panic]
    /\ UNCHANGED << rin, nonrvars >>

NextRef ==
    \/ RParseString
    \/ RJSON
    \/ RParse

\* Refs are written as strings and as JSON and parsed again.
SpecRef == InitRef /\ [][NextRef]_vars

\* The type segment of a string starting with refs/: what stands between
\* refs/ and the next slash, or the end.
TypeSegment(str) ==
    LET tail == From(str, Len(refPrefix))
        slashes == { i \in 1 .. Len(tail) : tail[i] = Code("/") }
    IN  IF slashes = { } THEN tail
        ELSE SubSeq(tail, 1, (CHOOSE i \in slashes : \A j \in slashes : i <= j) - 1)

\* C36: for every DoltRef r of type heads, remotes or internal,
\* Parse(r.String()) returns a ref equal to r with no error, and
\* UnmarshalJSON of MarshalJSON(r) gives r again; for a string starting
\* with refs/ whose type segment is none of the three, Parse returns
\* InvalidRef with ErrUnknownRefType and does not panic.
C36_RefRoundTrip ==
    /\ rout.op \in { "ParseString", "JSON" }
          => (~rout.panic /\ ~rout.err /\ rout.ref = rin.ref)
    /\ (rout.op = "Parse" /\ IsRef(rin.str) /\ TypeSegment(rin.str) \notin RefTypes)
          => (~rout.panic /\ rout.err /\ rout.ref = InvalidRef)

\* ------------------------------------------------------- sending metrics
\* The variables sending metrics leaves alone.
nonfvars == << tvars, jvars, rvars >>

\* Every process is about to run SendMetrics; the lock file is free.
InitFlush ==
    /\ db = NoDB
    /\ roots = << >>
    /\ sequences = EmptyMap
    /\ built = "no"
    /\ InitThreads
    /\ watch = WatchOff
    /\ NoJSON
    /\ NoRef
    /\ fpc = [p \in Procs |-> "start"]
    /\ fowner = 0
    /\ fcount = [p \in Procs |-> NoCount]
    /\ fret = [p \in Procs |-> 0]

\* SendMetrics up to the call of flockAndFlush: metrics disabled returns 0,
\* an error of AreMetricsDisabled or of GetUserHomeDir returns 1.
FStart(p) ==
    /\ fpc[p] = "start"
    /\ \E disabled \in BOOLEAN, e \in BOOLEAN, homeErr \in BOOLEAN :
         IF ~disabled /\ ~e
         THEN IF homeErr
              THEN fpc' = [fpc EXCEPT ![p] = "done"] /\ fret' = [fret EXCEPT ![p] = 1]
              ELSE fpc' = [fpc EXCEPT ![p] = "lock"] /\ UNCHANGED fret
         ELSE /\ fpc' = [fpc EXCEPT ![p] = "done"]
              /\ fret' = [fret EXCEPT ![p] = IF e THEN 1 ELSE 0]
    /\ UNCHANGED << fowner, fcount, nonfvars >>

\* lck, err := dEnv.FS.LockWithTimeout(egf.LockPath, 100ms): the lock is
\* taken when it is free; otherwise, or on another failure, the error is
\* returned and SendMetrics returns 2.
FLock(p) ==
    /\ fpc[p] = "lock"
    /\ \E ok \in BOOLEAN :
         IF ok /\ fowner = 0
         THEN /\ fowner' = p
              /\ fcount' = [fcount EXCEPT ![p].acq = @ + 1]
              /\ fpc' = [fpc EXCEPT ![p] = "flush"]
              /\ UNCHANGED fret
         ELSE /\ fpc' = [fpc EXCEPT ![p] = "done"]
              /\ fret' = [fret EXCEPT ![p] = 2]
              /\ UNCHANGED << fowner, fcount >>
    /\ UNCHANGED nonfvars

\* egf.FlushEvents(ctx) is called.
FFlush(p) ==
    /\ fpc[p] = "flush"
    /\ fpc' = [fpc EXCEPT ![p] = "flushing"]
    /\ fcount' = [fcount EXCEPT ![p].flu = @ + 1]
    /\ UNCHANGED << fowner, fret, nonfvars >>

\* Where flockAndFlush goes on a return without the deferred Unlock
AfterFlushNoDefer(e) == IF e THEN "done" ELSE "unlock"

\* Where flockAndFlush goes when FlushEvents has returned, with an error
\* or without: to the deferred function.
AfterFlush(e) == "unlock"

\* FlushEvents returns, within the timeout of ctx; flockAndFlush returns
\* its error, and SendMetrics 2 for an error and 0 otherwise.
FFlushed(p) ==
    /\ fpc[p] = "flushing"
    /\ \E e \in BOOLEAN :
         /\ fpc' = [fpc EXCEPT ![p] = AfterFlush(e)]
         /\ fret' = [fret EXCEPT ![p] = IF e THEN 2 ELSE 0]
    /\ UNCHANGED << fowner, fcount, nonfvars >>

\* The deferred function: lck.Unlock() gives the lock back; its error is
\* only logged and changes nothing of what is returned.
FUnlock(p) ==
    /\ fpc[p] = "unlock"
    /\ fowner' = IF fowner = p THEN 0 ELSE fowner
    /\ fcount' = [fcount EXCEPT ![p].unl = @ + 1]
    /\ fpc' = [fpc EXCEPT ![p] = "done"]
    /\ UNCHANGED << fret, nonfvars >>

\* The steps of one run of SendMetrics.
FRun(p) == FStart(p) \/ FLock(p) \/ FFlush(p) \/ FFlushed(p) \/ FUnlock(p)

NextFlush ==
    \E p \in Procs :
        \/ FStart(p)
        \/ FLock(p)
        \/ FFlush(p)
        \/ FFlushed(p)
        \/ FUnlock(p)

\* Processes send metrics; a run that has started goes on to its end.
SpecFlush ==
    InitFlush /\ [][NextFlush]_vars /\ \A p \in Procs : WF_vars(FRun(p))

\* C37: in flockAndFlush the flush runs only while the file lock is held,
\* and every lock taken is released in the end, exactly once, whether
\* FlushEvents succeeds or returns an error; when the lock cannot be taken
\* within the timeout, the flush is never attempted and the error of the
\* acquisition is returned.
C37_FlushUnderLock ==
    /\ [](\A p \in Procs :
            /\ fpc[p] \in { "flush", "flushing" } => fowner = p
            /\ fcount[p].unl <= fcount[p].acq
            /\ fpc[p] = "done" => fcount[p].unl = fcount[p].acq
            /\ fpc[p] = "done" => fowner # p
            /\ (fpc[p] = "done" /\ fcount[p].acq = 0) => fcount[p].flu = 0
            /\ fcount[p].flu <= fcount[p].acq)
    /\ \A p \in Procs : (fowner = p) ~> (fowner # p)

\* One process has run to its end with a failing flush and has given the
\* lock back; the other gave up on the lock.
C37_Witness ==
    /\ fpc[1] = "done" /\ fret[1] = 2
    /\ fcount[1] = [acq |-> 1, unl |-> 1, flu |-> 1]
    /\ fpc[2] = "done" /\ fret[2] = 2 /\ fcount[2] = NoCount
    /\ fowner = 0

====
